---- MODULE Spec2Model ----
(***************************************************************************)
(* piper: the Archiver (src/src/compressor.rs) and the Job Orchestrator    *)
(* (src/src/app.rs) and the Crawler (src/src/spyder.rs) as state machines.  *)
(*                                                                         *)
(* A file name is a sequence of tokens: the token "." is one dot, every    *)
(* other token stands for a non-empty run of characters without a dot.     *)
(* All names live in one directory, so a name is also a path.              *)
(*                                                                         *)
(* The specifications share the variables:                                 *)
(*   SpecArch  one Archiver call at a time, one I/O step per transition;   *)
(*   SpecCrawl one crawl of a directory tree, one analysed entry per       *)
(*             transition;                                                 *)
(*   Spec      the Orchestrator: commands, background workers, ticks;      *)
(*   SpecPool  two Archiver calls of one compression job side by side.     *)
(***************************************************************************)
EXTENDS Integers, Sequences, FiniteSets, TLC

VARIABLES
    fs,             \* the disk: name -> entry, defined on the names that exist
    call,           \* the Archiver call in progress (SpecArch, SpecPool)
    prev,           \* the call that returned before it (SpecArch), the second call (SpecPool)
    ncalls,         \* Archiver calls started so far (SpecArch)
    items,          \* App.items
    cursor,         \* App.list_state.selected(): always Some(cursor)
    weissman_score, \* App.weissman_score as the fraction <<n, d>>: the score is n / d
    total_savings,  \* App.total_savings
    session,        \* App.session_savings, session_original, session_compressed
    is_scanning,    \* App.is_scanning
    is_compressing, \* App.is_compressing
    is_restoring,   \* App.is_restoring
    rx,             \* App.rx: TRUE when it is Some(receiver)
    queue,          \* the messages waiting in the channel App.rx receives from
    workers,        \* the background threads that have not finished
    history,        \* App.history.entries
    faults,         \* I/O faults injected so far
    job,            \* the compression job in progress: its targets and what
                    \* start_compression found when it dispatched them
    posted,         \* the messages sent so far on the channel App.rx holds
    tree,           \* the directory tree below the scan root (SpecCrawl)
    walk,           \* the walker's entries not yet analysed (SpecCrawl)
    results,        \* crawl: the Vec behind the mutex (SpecCrawl)
    final_results   \* crawl: None until it returns Some(final_results) (SpecCrawl)

vars == <<fs, call, prev, ncalls, items, cursor, weissman_score, total_savings,
          session, is_scanning, is_compressing, is_restoring, rx, queue,
          workers, history, faults, job, posted, tree, walk, results,
          final_results>>

archVars == <<fs, call, prev, ncalls>>
appVars == <<items, cursor, weissman_score, total_savings, session, is_scanning,
             is_compressing, is_restoring, rx, queue, workers, history, faults,
             job, posted>>
crawlVars == <<tree, walk, results, final_results>>

(***************************************************************************)
(* Bounds of the model.                                                    *)
(***************************************************************************)
\* Archiver calls in one behaviour of SpecArch.
MaxCalls == 2
\* I/O faults injected in one behaviour of Spec.
MaxFaults == 1
\* Item indices the claims about single items range over.
MaxItems == 2

(***************************************************************************)
(* std::path: file_stem, extension, with_extension on one path component.  *)
(***************************************************************************)
Dot == "."

\* The index of the last dot of the name, 0 when it has none.
LastDot(n) ==
    LET I == {i \in 1..Len(n) : n[i] = Dot}
    IN  IF I = {} THEN 0 ELSE CHOOSE i \in I : \A j \in I : j <= i

\* Path::extension is Some: the name has a dot that is not its first character.
HasExtension(n) == n # <<Dot, Dot>> /\ LastDot(n) > 1

\* Path::file_stem
FileStem(n) == IF HasExtension(n) THEN SubSeq(n, 1, LastDot(n) - 1) ELSE n

\* Path::extension().unwrap_or_default()
Extension(n) == IF HasExtension(n) THEN SubSeq(n, LastDot(n) + 1, Len(n)) ELSE <<>>

\* Path::with_extension: the stem, then "." and the extension unless it is empty.
WithExtension(n, e) == FileStem(n) \o (IF e = <<>> THEN <<>> ELSE <<Dot>> \o e)

ZstSuffix == <<Dot, "zst">>
TarZstSuffix == <<Dot, "tar", Dot, "zst">>

\* str::ends_with(".tar.zst") on the file name
EndsWithTarZst(n) ==
    Len(n) >= 4 /\ SubSeq(n, Len(n) - 3, Len(n)) = TarZstSuffix

\* compress_single_file: with_extension(format!("{}.zst", extension))
SingleOutputPath(p) == WithExtension(p, Extension(p) \o ZstSuffix)

\* compress_single_file: output_path.with_extension("zst.tmp")
SingleTempPath(out) == WithExtension(out, <<"zst", Dot, "tmp">>)

\* compress_directory: format!("{}.tar.zst", input_path)
DirOutputPath(p) == p \o TarZstSuffix

\* compress_directory: output_path.with_extension("tmp")
DirTempPath(out) == WithExtension(out, <<"tmp">>)

\* decompress_single: input_path.with_extension("")
DecompressOutputPath(a) == WithExtension(a, <<>>)

(***************************************************************************)
(* The disk.                                                               *)
(***************************************************************************)
Exists(f, n) == n \in DOMAIN f
Put(f, n, e) == [m \in (DOMAIN f) \cup {n} |-> IF m = n THEN e ELSE f[m]]
Remove(f, n) == [m \in (DOMAIN f) \ {n} |-> f[m]]

\* A regular file with plain content id.
RawFile(id) == [kind |-> "file", enc |-> "raw", id |-> id, dname |-> <<>>]
\* The zstd stream of the plain content id.
ZstFile(id) == [kind |-> "file", enc |-> "zst", id |-> id, dname |-> <<>>]
\* The zstd-compressed tar of directory content id, packed under the name dname.
TarZstFile(id, dname) == [kind |-> "file", enc |-> "tarzst", id |-> id, dname |-> dname]
\* A file created and not yet completely written.
PartialFile == [kind |-> "file", enc |-> "partial", id |-> "none", dname |-> <<>>]
\* A directory with content id.
DirEntry(id) == [kind |-> "dir", enc |-> "raw", id |-> id, dname |-> <<>>]
\* What is left of a directory that was removed or unpacked only in part.
PartialDir == [kind |-> "dir", enc |-> "partial", id |-> "none", dname |-> <<>>]

\* File contents: "A" compresses well (1 MiB of one byte), "E" compresses to its
\* own size, "R" grows (six bytes, smaller than the zstd frame).
FileIds == {"A", "E", "R"}
\* Directory contents: "D" packs to less than its files, "S" to more.
DirIds == {"D", "S"}

\* Metadata::len of a plain file / the sum of the regular files of a directory.
RawSize(id) ==
    CASE id = "A" -> 4 [] id = "E" -> 2 [] id = "R" -> 1
      [] id = "D" -> 5 [] id = "S" -> 1 [] OTHER -> 0
\* The length of the zstd stream (of the tar, for a directory) of the content.
PackedSize(id) ==
    CASE id = "A" -> 2 [] id = "E" -> 2 [] id = "R" -> 3
      [] id = "D" -> 3 [] id = "S" -> 2 [] OTHER -> 1

\* Metadata::len of a file entry.
FileLen(e) ==
    CASE e.enc = "raw" -> RawSize(e.id)
      [] e.enc \in {"zst", "tarzst"} -> PackedSize(e.id)
      [] OTHER -> 0

\* get_dir_size: the sum of the sizes of the regular files below the path.
get_dir_size(f, p) ==
    IF ~Exists(f, p) THEN 0
    ELSE IF f[p].kind = "dir" THEN RawSize(f[p].id) ELSE FileLen(f[p])

(***************************************************************************)
(* An Archiver call.  pc is the place the call has reached, fault the I/O  *)
(* operation of this call that fails ("none": no operation fails).  The    *)
(* faults are the failures the code propagates with `?` or matches on; the *)
(* best-effort removal of the call's own temporary file (`let _ =`) is     *)
(* taken to succeed.  pre is the entry found at the path when the call     *)
(* started, cmp the outcome of the size comparison once it is made.        *)
(***************************************************************************)
NoEntry == [kind |-> "none", enc |-> "none", id |-> "none", dname |-> <<>>]
EntryAt(f, n) == IF Exists(f, n) THEN f[n] ELSE NoEntry

Faults == {"none", "metadata", "open", "create", "encode", "size", "rename", "remove"}

\* Err(_)
ErrResult == [ok |-> FALSE, osz |-> 0, csz |-> 0, out |-> <<>>]
\* Ok(CompressionStats {original_size, compressed_size, output_path})
OkResult(o, z, out) == [ok |-> TRUE, osz |-> o, csz |-> z, out |-> out]

IdleCall ==
    [op |-> "none", pc |-> "idle", path |-> <<>>, fault |-> "none", osize |-> 0,
     csize |-> 0, out |-> <<>>, tmp |-> <<>>, pre |-> NoEntry, held |-> NoEntry,
     cmp |-> "none", res |-> ErrResult]

\* The path a decompress call on the archive p restores to: the directory stored
\* in a packed archive, the archive's name without ".zst" for a single stream.
RestoreTarget(f, p) ==
    IF EndsWithTarZst(p) THEN EntryAt(f, p).dname ELSE DecompressOutputPath(p)

\* A call as it is entered: pre is the entry found at its path, held what the
\* restore target of a decompress call holds at that moment.
NewCall(f, op, p, flt) ==
    [IdleCall EXCEPT !.op = op, !.pc = IF op = "compress" THEN "start" ELSE "dstart",
                     !.path = p, !.fault = flt, !.pre = EntryAt(f, p),
                     !.held = IF op = "decompress" THEN EntryAt(f, RestoreTarget(f, p))
                              ELSE NoEntry]

Return(f, c, r) == [fs |-> f, call |-> [c EXCEPT !.pc = "done", !.res = r]]
Goto(f, c, pc) == [fs |-> f, call |-> [c EXCEPT !.pc = pc]]

\* finalize_compression: read the temp file's size; if it is smaller, rename it to
\* the output path ("finalize") and then remove the original ("remove"); if not,
\* remove the temp file and report the original size.
\* Mutant: the original is removed before the temp file is renamed.
finalize_compression_RemoveFirst(f, c) ==
    IF c.pc = "finalize"
    THEN IF c.fault = "size" \/ ~Exists(f, c.tmp) THEN Return(f, c, ErrResult)
         ELSE LET csz == FileLen(f[c.tmp])
              IN  IF csz < c.osize
                  THEN IF c.fault = "remove"
                       THEN Return(f, [c EXCEPT !.cmp = "smaller"], ErrResult)
                       ELSE Goto(Remove(f, c.path),
                                 [c EXCEPT !.csize = csz, !.cmp = "smaller"], "remove")
                  ELSE Return(Remove(f, c.tmp), [c EXCEPT !.cmp = "not_smaller"],
                              OkResult(c.osize, c.osize, c.path))
    ELSE IF c.fault = "rename" THEN Return(f, c, ErrResult)
         ELSE Return(Put(Remove(f, c.tmp), c.out, f[c.tmp]), c,
                     OkResult(c.osize, c.csize, c.out))

\* Mutant: an output of the original's size is committed too (<= for <).
finalize_compression_CommitOnEqual(f, c) ==
    IF c.pc = "finalize"
    THEN IF c.fault = "size" \/ ~Exists(f, c.tmp) THEN Return(f, c, ErrResult)
         ELSE LET csz == FileLen(f[c.tmp])
              IN  IF csz <= c.osize
                  THEN IF c.fault = "rename"
                       THEN Return(f, [c EXCEPT !.cmp = IF csz < c.osize THEN "smaller"
                                                        ELSE "not_smaller"], ErrResult)
                       ELSE Goto(Put(Remove(f, c.tmp), c.out, f[c.tmp]),
                                 [c EXCEPT !.csize = csz,
                                           !.cmp = IF csz < c.osize THEN "smaller"
                                                   ELSE "not_smaller"], "remove")
                  ELSE Return(Remove(f, c.tmp), [c EXCEPT !.cmp = "not_smaller"],
                              OkResult(c.osize, c.osize, c.path))
    ELSE IF c.fault = "remove" \/ ~Exists(f, c.path) THEN Return(f, c, ErrResult)
         ELSE Return(Remove(f, c.path), c, OkResult(c.osize, c.csize, c.out))

finalize_compression(f, c) ==
    IF c.pc = "finalize"
    THEN IF c.fault = "size" \/ ~Exists(f, c.tmp) THEN Return(f, c, ErrResult)
         ELSE LET csz == FileLen(f[c.tmp])
              IN  IF csz < c.osize
                  THEN IF c.fault = "rename"
                       THEN Return(f, [c EXCEPT !.cmp = "smaller"], ErrResult)
                       ELSE Goto(Put(Remove(f, c.tmp), c.out, f[c.tmp]),
                                 [c EXCEPT !.csize = csz, !.cmp = "smaller"], "remove")
                  ELSE Return(Remove(f, c.tmp), [c EXCEPT !.cmp = "not_smaller"],
                              OkResult(c.osize, c.osize, c.path))
    ELSE IF c.fault = "remove" \/ ~Exists(f, c.path) THEN Return(f, c, ErrResult)
         ELSE Return(Remove(f, c.path), c, OkResult(c.osize, c.csize, c.out))

\* compress_single_file: open the input and create the temp file ("single"), stream
\* the zstd encoding into it ("encoding"), then finalize_compression.
compress_single_file(f, c) ==
    IF c.pc = "single"
    THEN IF c.fault \in {"open", "create"} THEN Return(f, c, ErrResult)
         ELSE CHOOSE r \in
                  {Goto(Put(f, tmp, PartialFile),
                        [c EXCEPT !.osize = FileLen(f[c.path]),
                                  !.out = SingleOutputPath(c.path), !.tmp = tmp],
                        "encoding") :
                     tmp \in {SingleTempPath(out) : out \in {SingleOutputPath(c.path)}}} :
                  TRUE
    ELSE IF c.fault = "encode" \/ ~Exists(f, c.path)
         THEN Return(Remove(f, c.tmp), c, ErrResult)
         ELSE Goto(Put(f, c.tmp, ZstFile(f[c.path].id)), c, "finalize")

\* compress_directory: size the tree and create the temp file ("dir"), pack and
\* compress the tree into it ("packing"), compare and rename ("dir_finalize"), then
\* remove_dir_all, which empties the tree ("remove_dir") before it removes its root
\* ("remove_dir2").
compress_directory(f, c) ==
    CASE c.pc = "dir" ->
           LET out == DirOutputPath(c.path)
               tmp == DirTempPath(out)
           IN  IF c.fault = "create" THEN Return(f, c, ErrResult)
               ELSE Goto(Put(f, tmp, PartialFile),
                         [c EXCEPT !.osize = get_dir_size(f, c.path), !.out = out,
                                   !.tmp = tmp],
                         "packing")
      [] c.pc = "packing" ->
           IF c.fault = "encode" \/ ~Exists(f, c.path) THEN Return(f, c, ErrResult)
           ELSE Goto(Put(f, c.tmp, TarZstFile(f[c.path].id, c.path)), c, "dir_finalize")
      [] c.pc = "dir_finalize" ->
           IF c.fault = "size" \/ ~Exists(f, c.tmp) THEN Return(f, c, ErrResult)
           ELSE LET csz == FileLen(f[c.tmp])
                IN  IF csz < c.osize
                    THEN IF c.fault = "rename"
                         THEN Return(f, [c EXCEPT !.cmp = "smaller"], ErrResult)
                         ELSE Goto(Put(Remove(f, c.tmp), c.out, f[c.tmp]),
                                   [c EXCEPT !.csize = csz, !.cmp = "smaller"], "remove_dir")
                    ELSE Return(Remove(f, c.tmp), [c EXCEPT !.cmp = "not_smaller"],
                                OkResult(c.osize, c.osize, c.path))
      [] c.pc = "remove_dir" ->
           IF ~Exists(f, c.path) THEN Return(f, c, ErrResult)
           ELSE IF c.fault = "remove" THEN Return(Put(f, c.path, PartialDir), c, ErrResult)
           ELSE Goto(Put(f, c.path, PartialDir), c, "remove_dir2")
      [] OTHER ->
           Return(Remove(f, c.path), c, OkResult(c.osize, c.csize, c.out))

\* compress_file: read the metadata and dispatch on the entry kind.
compress_file(f, c) ==
    IF c.fault = "metadata" \/ ~Exists(f, c.path) THEN Return(f, c, ErrResult)
    ELSE IF f[c.path].kind = "dir" THEN compress_directory(f, [c EXCEPT !.pc = "dir"])
    ELSE compress_single_file(f, [c EXCEPT !.pc = "single"])

\* Mutant: a failed decoding cleans up the archive together with the output.
decompress_single_RemoveOnError(f, c) ==
    CASE c.pc = "dsingle" ->
           LET out == DecompressOutputPath(c.path)
           IN  IF c.fault \in {"open", "create"} \/ ~Exists(f, c.path)
                  \/ EntryAt(f, c.path).kind = "dir" \/ EntryAt(f, out).kind = "dir"
               THEN Return(f, c, ErrResult)
               ELSE Goto(Put(f, out, PartialFile), [c EXCEPT !.out = out], "decoding")
      [] c.pc = "decoding" ->
           IF c.fault = "encode" \/ EntryAt(f, c.path).enc # "zst"
           THEN Return(Remove(Remove(f, c.out), c.path), c, ErrResult)
           ELSE Goto(Put(f, c.out, RawFile(f[c.path].id)), c, "dremove")
      [] OTHER ->
           IF c.fault \in {"size", "remove"} \/ ~Exists(f, c.path)
           THEN Return(f, c, ErrResult)
           ELSE Return(Remove(f, c.path), c, OkResult(FileLen(f[c.out]), 0, <<>>))

\* decompress_single: open the archive and create the output ("dsingle"), stream the
\* decoding into it ("decoding"), read its size and remove the archive ("dremove").
decompress_single(f, c) ==
    CASE c.pc = "dsingle" ->
           LET out == DecompressOutputPath(c.path)
           IN  IF c.fault \in {"open", "create"} \/ ~Exists(f, c.path)
                  \/ EntryAt(f, c.path).kind = "dir" \/ EntryAt(f, out).kind = "dir"
               THEN Return(f, c, ErrResult)
               ELSE Goto(Put(f, out, PartialFile), [c EXCEPT !.out = out], "decoding")
      [] c.pc = "decoding" ->
           IF c.fault = "encode" \/ EntryAt(f, c.path).enc # "zst"
           THEN Return(f, c, ErrResult)
           ELSE Goto(Put(f, c.out, RawFile(f[c.path].id)), c, "dremove")
      [] OTHER ->
           IF c.fault \in {"size", "remove"} \/ ~Exists(f, c.path)
           THEN Return(f, c, ErrResult)
           ELSE Return(Remove(f, c.path), c, OkResult(FileLen(f[c.out]), 0, <<>>))

\* The directory name decompress_archive sizes: the stem of the stem of the archive.
FolderName(a) == FileStem(FileStem(a))

\* decompress_archive: open the archive ("darchive"), unpack it into the parent
\* directory under the name stored in it ("unpacking"), size the restored tree and
\* remove the archive ("aremove").  A stream that is no tar makes unpack fail.
decompress_archive(f, c) ==
    CASE c.pc = "darchive" ->
           IF c.fault = "open" \/ ~Exists(f, c.path) \/ EntryAt(f, c.path).kind = "dir"
           THEN Return(f, c, ErrResult)
           ELSE Goto(f, c, "unpacking")
      [] c.pc = "unpacking" ->
           IF EntryAt(f, c.path).enc # "tarzst" THEN Return(f, c, ErrResult)
           ELSE IF c.fault = "encode"
           THEN Return(Put(f, f[c.path].dname, PartialDir), c, ErrResult)
           ELSE Goto(Put(f, f[c.path].dname, DirEntry(f[c.path].id)),
                     [c EXCEPT !.out = f[c.path].dname], "aremove")
      [] OTHER ->
           IF c.fault = "remove" \/ ~Exists(f, c.path) THEN Return(f, c, ErrResult)
           ELSE Return(Remove(f, c.path), c,
                       OkResult(get_dir_size(f, FolderName(c.path)), 0, <<>>))

\* decompress_file: dispatch on the suffix of the archive's name.
decompress_file(f, c) ==
    IF EndsWithTarZst(c.path) THEN decompress_archive(f, [c EXCEPT !.pc = "darchive"])
    ELSE IF HasExtension(c.path) /\ Extension(c.path) = <<"zst">>
    THEN decompress_single(f, [c EXCEPT !.pc = "dsingle"])
    ELSE Return(f, c, ErrResult)

\* One I/O step of the call c on the disk f.
ArchStep(f, c) ==
    CASE c.pc = "start" -> compress_file(f, c)
      [] c.pc \in {"single", "encoding"} -> compress_single_file(f, c)
      [] c.pc \in {"finalize", "remove"} -> finalize_compression(f, c)
      [] c.pc \in {"dir", "packing", "dir_finalize", "remove_dir", "remove_dir2"} ->
           compress_directory(f, c)
      [] c.pc = "dstart" -> decompress_file(f, c)
      [] c.pc \in {"dsingle", "decoding", "dremove"} -> decompress_single(f, c)
      [] c.pc \in {"darchive", "unpacking", "aremove"} -> decompress_archive(f, c)
      [] OTHER -> [fs |-> f, call |-> c]

\* The call run until it returns: the state after its last step.  (Each step's
\* result is bound as an element of a singleton, which makes TLC compute it once.)
RECURSIVE RunCall(_, _)
RunCall(f, c) ==
    IF c.pc \in {"idle", "done"} THEN [fs |-> f, call |-> c]
    ELSE CHOOSE r \in {RunCall(n.fs, n.call) : n \in {ArchStep(f, c)}} : TRUE


(***************************************************************************)
(* The Orchestrator's state after App::new.                                *)
(***************************************************************************)
NoSession == [savings |-> 0, original |-> 0, compressed |-> 0]

\* No compression job is in progress.
NoJob == [active |-> FALSE, targets |-> {}, items |-> <<>>, total_savings |-> 0]

\* No crawl was started.
NoCrawl ==
    /\ tree = <<>>
    /\ walk = {}
    /\ results = <<>>
    /\ final_results = <<>>

AppNew ==
    /\ items = <<>>
    /\ cursor = 0
    /\ weissman_score = <<52, 10>>
    /\ total_savings = 0
    /\ session = NoSession
    /\ is_scanning = FALSE
    /\ is_compressing = FALSE
    /\ is_restoring = FALSE
    /\ rx = FALSE
    /\ queue = <<>>
    /\ workers = {}
    /\ history = <<>>
    /\ faults = 0
    /\ job = NoJob
    /\ posted = <<>>

(***************************************************************************)
(* SpecArch: Archiver calls on a disk that holds one file or one directory,*)
(* one I/O step per transition; the next call starts when the call before  *)
(* it has returned.                                                        *)
(***************************************************************************)
FileNames == {<<"a", Dot, "log">>, <<"notes">>, <<"x", Dot, "tar">>,
              <<"b", Dot, "v1", Dot, "txt">>, <<Dot, "env">>}
DirNames == {<<"node_modules">>, <<Dot, "venv">>}

ArchDisks ==
    {[m \in {n} |-> RawFile(id)] : n \in FileNames, id \in FileIds}
      \cup {[m \in {n} |-> DirEntry(id)] : n \in DirNames, id \in DirIds}

InitArch ==
    /\ fs \in ArchDisks
    /\ call = IdleCall
    /\ prev = IdleCall
    /\ ncalls = 0
    /\ AppNew
    /\ NoCrawl

Returned == call.pc \in {"idle", "done"}

\* compress_file(p, level) is called on a plain file or a directory.
CompressCall ==
    /\ Returned
    /\ ncalls < MaxCalls
    /\ \E p \in DOMAIN fs, flt \in Faults :
          /\ fs[p].enc = "raw"
          /\ call' = NewCall(fs, "compress", p, flt)
    /\ prev' = call
    /\ ncalls' = ncalls + 1
    /\ UNCHANGED <<fs, appVars, crawlVars>>

\* decompress_file(p) is called on a file.
DecompressCall ==
    /\ Returned
    /\ ncalls < MaxCalls
    /\ \E p \in DOMAIN fs, flt \in Faults :
          /\ fs[p].kind = "file"
          /\ call' = NewCall(fs, "decompress", p, flt)
    /\ prev' = call
    /\ ncalls' = ncalls + 1
    /\ UNCHANGED <<fs, appVars, crawlVars>>

\* The call in progress takes its next I/O step.
ArchiverStep ==
    /\ ~Returned
    /\ LET n == ArchStep(fs, call)
       IN  fs' = n.fs /\ call' = n.call
    /\ UNCHANGED <<prev, ncalls, appVars, crawlVars>>

NextArch == CompressCall \/ DecompressCall \/ ArchiverStep

SpecArch == InitArch /\ [][NextArch]_vars


(***************************************************************************)
(* Claims about the Archiver, checked under SpecArch.                      *)
(***************************************************************************)
CompressActive == call.op = "compress" /\ call.pc # "idle"
CompressReturned == call.op = "compress" /\ call.pc = "done"

\* The archive compress writes for the entry e found at the path p.
PackedEntry(e, p) == IF e.kind = "dir" THEN TarZstFile(e.id, p) ELSE ZstFile(e.id)
\* The final name compress gives the archive of the entry e at the path p.
FinalName(e, p) == IF e.kind = "dir" THEN DirOutputPath(p) ELSE SingleOutputPath(p)

\* C6: in every intermediate state of a compress call (file or directory), if the
\* original is no longer as the call found it, then the complete output exists
\* under its final name; and the final name never holds a partially written file.
C6_OutputBeforeRemoval ==
    CompressActive =>
        /\ EntryAt(fs, call.path) # call.pre =>
              EntryAt(fs, FinalName(call.pre, call.path))
                  = PackedEntry(call.pre, call.path)
        /\ EntryAt(fs, FinalName(call.pre, call.path)).enc # "partial"

\* C6 witness: a directory compression has committed its archive and is half way
\* through removing the original tree.
C6_Witness ==
    /\ CompressActive
    /\ call.pc = "remove_dir2"
    /\ EntryAt(fs, call.path) = PartialDir
    /\ EntryAt(fs, call.out) = TarZstFile(call.pre.id, call.path)

\* C7: after a compress call returns, exactly one of the original and the output
\* under its final name is present.
C7_ExactlyOneAfterCompress ==
    CompressReturned =>
        (Exists(fs, call.path) /\ ~Exists(fs, FinalName(call.pre, call.path)))
          \/ (~Exists(fs, call.path) /\ Exists(fs, FinalName(call.pre, call.path)))

\* C8: when the comparison finds the temp output not strictly smaller than the
\* original (file or directory), compress returns Ok with compressed_size equal to
\* original_size, the original is as it was, the temp file is gone and nothing
\* exists under the final archive name.
C8_NoSavingsLeavesOriginal ==
    (CompressReturned /\ call.cmp = "not_smaller") =>
        /\ call.res.ok
        /\ call.res.csz = call.res.osz
        /\ call.res.osz = get_dir_size(fs, call.path)
        /\ EntryAt(fs, call.path) = call.pre
        /\ ~Exists(fs, call.tmp)
        /\ ~Exists(fs, FinalName(call.pre, call.path))

\* C8 witness: a compress call returned after finding no savings.
C8_Witness ==
    /\ CompressReturned
    /\ call.cmp = "not_smaller"
    /\ call.res.ok
    /\ PackedSize(call.pre.id) >= RawSize(call.pre.id)

\* C9: a compress call on a file that returns a result with savings has removed the
\* original and left the output at output_path, which is the original name with
\* ".zst" appended.
C9_OutputIsNamePlusZst ==
    (CompressReturned /\ call.pre.kind = "file" /\ call.res.ok
        /\ call.cmp = "smaller") =>
        /\ call.res.csz < call.res.osz
        /\ ~Exists(fs, call.path)
        /\ Exists(fs, call.res.out)
        /\ call.res.out = call.path \o ZstSuffix

\* C10: decompress, run without an I/O fault on the output_path that a successful
\* compress of a file returned, leaves the file's original content at its original
\* path.
C10_RoundTrip ==
    (/\ call.op = "decompress" /\ call.pc = "done" /\ call.fault = "none"
     /\ prev.op = "compress" /\ prev.pc = "done" /\ prev.res.ok
     /\ prev.pre.kind = "file"
     /\ call.path = prev.res.out) =>
        EntryAt(fs, prev.path) = prev.pre

\* C11: a decompress call on an existing file that returns an error leaves the
\* archive as the call found it; and at every step of the call, the archive is gone
\* only once the decoded file (the unpacked directory) stands complete.
C11_ErrorLeavesArchive ==
    (call.op = "decompress" /\ call.pc # "idle" /\ call.pre.kind = "file") =>
        /\ (call.pc = "done" /\ ~call.res.ok) => EntryAt(fs, call.path) = call.pre
        /\ EntryAt(fs, call.path) # call.pre =>
              IF call.pre.enc = "tarzst"
              THEN EntryAt(fs, call.pre.dname) = DirEntry(call.pre.id)
              ELSE EntryAt(fs, call.out) = RawFile(call.pre.id)

\* C11 witness: decoding a zstd stream failed part way; the call returned the error
\* with the output written in part.
C11_Witness ==
    /\ call.op = "decompress" /\ call.pc = "done" /\ ~call.res.ok
    /\ call.fault = "encode"
    /\ call.pre.enc = "zst"
    /\ EntryAt(fs, call.out) = PartialFile
    /\ EntryAt(fs, call.path) = call.pre


(***************************************************************************)
(* The Job Orchestrator (src/src/app.rs).                                  *)
(*                                                                         *)
(* An item's compressed_size is <<>> for None and <<n>> for Some(n).  A    *)
(* background thread is a record of the set workers; live says that the    *)
(* receiver of the channel it sends on is still the one App.rx holds: a    *)
(* send on a channel whose receiver was dropped fails and is ignored.      *)
(* Sizes are counted in MiB.  The presentation state (view, tab, details,  *)
(* spinner, system monitor) is left out.                                   *)
(***************************************************************************)
None == <<>>
Some(n) == <<n>>

\* The sum of g[i] over the indices of the sequence g.
RECURSIVE SumSeq(_)
SumSeq(g) == IF g = <<>> THEN 0 ELSE g[1] + SumSeq(Tail(g))

\* spyder.rs: the names of the heavy-dependency directories.
HeavyNames == {<<"node_modules">>, <<"target">>, <<"venv">>, <<Dot, "venv">>}
\* spyder.rs: the extensions of the stale-artifact files.
StaleExtensions == {<<"log">>, <<"txt">>, <<"old">>}
\* spyder.rs: a stale file is larger than 1 MiB.
StaleMinSize == 1
\* spyder.rs: a stale file was last accessed more than 30 days ago.
StaleDays == 30

\* The ignore::DirEntry the walker yields for the entry named n of the disk f, with
\* what analyze_entry reads through it.  Every file of the disk was last accessed
\* more than 30 days ago.
DiskEntry(f, n) ==
    [path |-> n, file_name |-> n, kind |-> f[n].kind, len |-> FileLen(f[n]),
     age |-> StaleDays + 1, dir_size |-> get_dir_size(f, n)]

\* Mutant: the access time is not looked at.
analyze_entry_NoAccessCheck(e) ==
    IF e.file_name = <<Dot, "git">> THEN <<>>
    ELSE IF e.kind = "dir"
    THEN IF e.file_name \in HeavyNames
         THEN <<[path |-> e.path, size |-> e.dir_size,
                 reason |-> "Heavy Dependency Folder"]>>
         ELSE <<>>
    ELSE IF HasExtension(e.file_name) /\ Extension(e.file_name) \in StaleExtensions
            /\ e.len > StaleMinSize
    THEN <<[path |-> e.path, size |-> e.len, reason |-> "Stale Log File (>30 days)"]>>
    ELSE <<>>

\* Spyder::analyze_entry on the walker's entry e: <<>> for None, <<item>> for Some.
\* len is in MiB, age is the time since the last access in days.
analyze_entry(e) ==
    IF e.file_name = <<Dot, "git">> THEN <<>>
    ELSE IF e.kind = "dir"
    THEN IF e.file_name \in HeavyNames
         THEN <<[path |-> e.path, size |-> e.dir_size,
                 reason |-> "Heavy Dependency Folder"]>>
         ELSE <<>>
    ELSE IF HasExtension(e.file_name) /\ Extension(e.file_name) \in StaleExtensions
            /\ e.len > StaleMinSize /\ e.age > StaleDays
    THEN <<[path |-> e.path, size |-> e.len, reason |-> "Stale Log File (>30 days)"]>>
    ELSE <<>>

\* The FileItem start_scan's thread builds from a ScannedItem.
FileItem(r) ==
    [path |-> r.path, original_size |-> r.size, compressed_size |-> None,
     status |-> "Found", reason |-> r.reason, selected |-> FALSE]

\* Mutant: the results are returned in the order they were pushed.
sort_by_Pushed(q) == q

\* final_results.sort_by(|a, b| b.size.cmp(&a.size)): a stable sort, largest first.
\* Each element goes behind the elements before it that are not smaller.
RECURSIVE sort_by(_)
sort_by(q) ==
    IF q = <<>> THEN <<>>
    ELSE LET n == Len(q)
             x == q[n]
             h == sort_by(SubSeq(q, 1, n - 1))
             k == Cardinality({i \in 1..Len(h) : h[i].size >= x.size})
         IN  SubSeq(h, 1, k) \o <<x>> \o SubSeq(h, k + 1, Len(h))

\* The orders in which the parallel analyses can push the candidates of C.
PushOrders(C) ==
    {q \in [1..Cardinality(C) -> C] : \A i, j \in 1..Cardinality(C) : i # j => q[i] # q[j]}

\* Spyder::crawl on the disk f: the candidates, pushed in the order the parallel
\* analyses finish, then sorted.
crawl(f) ==
    LET C == {analyze_entry(DiskEntry(f, n))[1] :
                 n \in {m \in DOMAIN f : analyze_entry(DiskEntry(f, m)) # <<>>}}
    IN  {sort_by(q) : q \in PushOrders(C)}

\* App::calculate_score
calculate_score(its) ==
    LET total_original == SumSeq([i \in 1..Len(its) |-> its[i].original_size])
        total_compressed ==
            SumSeq([i \in 1..Len(its) |->
                      IF its[i].compressed_size = None THEN its[i].original_size
                      ELSE its[i].compressed_size[1]])
    IN  IF total_compressed > 0
        THEN <<total_original * 26, total_compressed * 10>>
        ELSE <<0, 1>>

\* AppMessage
ScanComplete(its) ==
    [type |-> "ScanComplete", items |-> its, idx |-> 0, res |-> ErrResult]
CompressionProgress(i, r) ==
    [type |-> "CompressionProgress", items |-> <<>>, idx |-> i, res |-> r]
CompressionDone ==
    [type |-> "CompressionDone", items |-> <<>>, idx |-> 0, res |-> ErrResult]
RestorationDone(i, ok) ==
    [type |-> "RestorationDone", items |-> <<>>, idx |-> i,
     res |-> [ErrResult EXCEPT !.ok = ok]]

\* The fields of App that tick's message loop works on.
AppState ==
    [items |-> items, cursor |-> cursor, score |-> weissman_score,
     total_savings |-> total_savings, session |-> session,
     is_scanning |-> is_scanning, is_compressing |-> is_compressing,
     is_restoring |-> is_restoring, rx |-> rx, session_finished |-> FALSE]

\* Mutant: the savings of a progress message replace the total, so the last message
\* applied decides it.
ApplyMessage_LastWins(a, m) ==
    CASE m.type = "ScanComplete" ->
           [a EXCEPT !.items = m.items, !.is_scanning = FALSE, !.rx = FALSE,
                     !.cursor = IF m.items # <<>> THEN 0 ELSE a.cursor]
      [] m.type = "CompressionProgress" ->
           IF m.idx <= Len(a.items)
           THEN LET its ==
                      IF m.res.ok
                      THEN IF m.res.osz > m.res.csz
                           THEN [a.items EXCEPT ![m.idx].compressed_size = Some(m.res.csz),
                                                ![m.idx].status = "Done"]
                           ELSE [a.items EXCEPT ![m.idx].compressed_size = Some(m.res.csz),
                                                ![m.idx].status = "Error",
                                                ![m.idx].reason =
                                                    "No savings or size increased"]
                      ELSE [a.items EXCEPT ![m.idx].status = "Error"]
                    saved == IF m.res.ok /\ m.res.osz > m.res.csz
                             THEN m.res.osz - m.res.csz ELSE 0
                IN  [a EXCEPT !.items = its,
                              !.total_savings = saved,
                              !.session =
                                  IF saved > 0
                                  THEN [savings |-> @.savings + saved,
                                        original |-> @.original + m.res.osz,
                                        compressed |-> @.compressed + m.res.csz]
                                  ELSE @,
                              !.score = calculate_score(its)]
           ELSE a
      [] m.type = "CompressionDone" ->
           [a EXCEPT !.is_compressing = FALSE, !.rx = FALSE, !.session_finished = TRUE]
      [] OTHER ->
           LET b == IF m.idx <= Len(a.items) /\ m.res.ok
                    THEN LET it == a.items[m.idx]
                             credit ==
                                 IF it.compressed_size # None
                                    /\ it.original_size > it.compressed_size[1]
                                 THEN it.original_size - it.compressed_size[1] ELSE 0
                             its == [a.items EXCEPT ![m.idx].status = "Restored",
                                                    ![m.idx].compressed_size = None]
                         IN  [a EXCEPT !.items = its,
                                       !.total_savings =
                                           IF @ > credit THEN @ - credit ELSE 0,
                                       !.score = calculate_score(its)]
                    ELSE IF m.idx <= Len(a.items)
                    THEN [a EXCEPT !.items[m.idx].status = "Error"]
                    ELSE a
           IN  [b EXCEPT !.is_restoring = FALSE, !.rx = FALSE]

\* Mutant: a result that saves nothing still counts as Done.
ApplyMessage_DoneWithoutSavings(a, m) ==
    CASE m.type = "ScanComplete" ->
           [a EXCEPT !.items = m.items, !.is_scanning = FALSE, !.rx = FALSE,
                     !.cursor = IF m.items # <<>> THEN 0 ELSE a.cursor]
      [] m.type = "CompressionProgress" ->
           IF m.idx <= Len(a.items)
           THEN LET its ==
                      IF m.res.ok
                      THEN IF m.res.osz >= m.res.csz
                           THEN [a.items EXCEPT ![m.idx].compressed_size = Some(m.res.csz),
                                                ![m.idx].status = "Done"]
                           ELSE [a.items EXCEPT ![m.idx].compressed_size = Some(m.res.csz),
                                                ![m.idx].status = "Error",
                                                ![m.idx].reason =
                                                    "No savings or size increased"]
                      ELSE [a.items EXCEPT ![m.idx].status = "Error"]
                    saved == IF m.res.ok /\ m.res.osz > m.res.csz
                             THEN m.res.osz - m.res.csz ELSE 0
                IN  [a EXCEPT !.items = its,
                              !.total_savings = @ + saved,
                              !.session =
                                  IF saved > 0
                                  THEN [savings |-> @.savings + saved,
                                        original |-> @.original + m.res.osz,
                                        compressed |-> @.compressed + m.res.csz]
                                  ELSE @,
                              !.score = calculate_score(its)]
           ELSE a
      [] m.type = "CompressionDone" ->
           [a EXCEPT !.is_compressing = FALSE, !.rx = FALSE, !.session_finished = TRUE]
      [] OTHER ->
           LET b == IF m.idx <= Len(a.items) /\ m.res.ok
                    THEN LET it == a.items[m.idx]
                             credit ==
                                 IF it.compressed_size # None
                                    /\ it.original_size > it.compressed_size[1]
                                 THEN it.original_size - it.compressed_size[1] ELSE 0
                             its == [a.items EXCEPT ![m.idx].status = "Restored",
                                                    ![m.idx].compressed_size = None]
                         IN  [a EXCEPT !.items = its,
                                       !.total_savings =
                                           IF @ > credit THEN @ - credit ELSE 0,
                                       !.score = calculate_score(its)]
                    ELSE IF m.idx <= Len(a.items)
                    THEN [a EXCEPT !.items[m.idx].status = "Error"]
                    ELSE a
           IN  [b EXCEPT !.is_restoring = FALSE, !.rx = FALSE]

\* App::tick, one arm of `match msg`.  Item indices count from 1 here.
ApplyMessage(a, m) ==
    CASE m.type = "ScanComplete" ->
           [a EXCEPT !.items = m.items, !.is_scanning = FALSE, !.rx = FALSE,
                     !.cursor = IF m.items # <<>> THEN 0 ELSE a.cursor]
      [] m.type = "CompressionProgress" ->
           IF m.idx <= Len(a.items)
           THEN LET its ==
                      IF m.res.ok
                      THEN IF m.res.osz > m.res.csz
                           THEN [a.items EXCEPT ![m.idx].compressed_size = Some(m.res.csz),
                                                ![m.idx].status = "Done"]
                           ELSE [a.items EXCEPT ![m.idx].compressed_size = Some(m.res.csz),
                                                ![m.idx].status = "Error",
                                                ![m.idx].reason =
                                                    "No savings or size increased"]
                      ELSE [a.items EXCEPT ![m.idx].status = "Error"]
                    saved == IF m.res.ok /\ m.res.osz > m.res.csz
                             THEN m.res.osz - m.res.csz ELSE 0
                IN  [a EXCEPT !.items = its,
                              !.total_savings = @ + saved,
                              !.session =
                                  IF saved > 0
                                  THEN [savings |-> @.savings + saved,
                                        original |-> @.original + m.res.osz,
                                        compressed |-> @.compressed + m.res.csz]
                                  ELSE @,
                              !.score = calculate_score(its)]
           ELSE a
      [] m.type = "CompressionDone" ->
           [a EXCEPT !.is_compressing = FALSE, !.rx = FALSE, !.session_finished = TRUE]
      [] OTHER ->
           LET b == IF m.idx <= Len(a.items) /\ m.res.ok
                    THEN LET it == a.items[m.idx]
                             credit ==
                                 IF it.compressed_size # None
                                    /\ it.original_size > it.compressed_size[1]
                                 THEN it.original_size - it.compressed_size[1] ELSE 0
                             its == [a.items EXCEPT ![m.idx].status = "Restored",
                                                    ![m.idx].compressed_size = None]
                         IN  [a EXCEPT !.items = its,
                                       !.total_savings =
                                           IF @ > credit THEN @ - credit ELSE 0,
                                       !.score = calculate_score(its)]
                    ELSE IF m.idx <= Len(a.items)
                    THEN [a EXCEPT !.items[m.idx].status = "Error"]
                    ELSE a
           IN  [b EXCEPT !.is_restoring = FALSE, !.rx = FALSE]

\* App::tick, `for msg in messages`.
RECURSIVE ApplyMessages(_, _)
ApplyMessages(a, ms) ==
    IF ms = <<>> THEN a
    ELSE CHOOSE r \in {ApplyMessages(b, Tail(ms)) : b \in {ApplyMessage(a, Head(ms))}} :
             TRUE

\* AnalyticsHistory::add_entry
add_entry(h, original, compressed) ==
    Append(h, [original_size |-> original, compressed_size |-> compressed,
               savings |-> IF original > compressed THEN original - compressed ELSE 0])

\* The threads once App.rx is replaced or dropped: their sends fail from now on.
Orphaned(ws) == {[w EXCEPT !.live = FALSE] : w \in ws}


(***************************************************************************)
(* Spec: the Orchestrator on a disk with two candidates.  A key is a       *)
(* command of the dashboard; a worker step is one background thread        *)
(* running one Archiver or Crawler call and posting its message.           *)
(***************************************************************************)
\* A disk with the entries e1 at n1 and e2 at n2.
Disk2(n1, e1, n2, e2) == [n \in {n1, n2} |-> IF n = n1 THEN e1 ELSE e2]

\* A compressible log beside a log that does not shrink, or beside a heavy
\* directory.
SpecDisks ==
    {Disk2(<<"a", Dot, "log">>, RawFile("A"), <<"b", Dot, "txt">>, RawFile("E")),
     Disk2(<<"a", Dot, "log">>, RawFile("A"), <<"node_modules">>, DirEntry("D"))}

Init ==
    /\ fs \in SpecDisks
    /\ call = IdleCall
    /\ prev = IdleCall
    /\ ncalls = 0
    /\ AppNew
    /\ NoCrawl

\* The fault a worker's Archiver call meets: none once MaxFaults were injected.
FaultChoices == IF faults < MaxFaults THEN Faults ELSE {"none"}
Injected(flt) == IF flt = "none" THEN 0 ELSE 1

Idle == ~is_scanning /\ ~is_compressing /\ ~is_restoring
has_selection == \E i \in 1..Len(items) : items[i].selected

\* App::next (Down, 'j')
KeyDown ==
    /\ cursor' = IF cursor + 1 >= Len(items) THEN 0 ELSE cursor + 1
    /\ UNCHANGED <<archVars, items, weissman_score, total_savings, session, is_scanning,
                   is_compressing, is_restoring, rx, queue, workers, history, faults,
                   job, posted, crawlVars>>

\* App::previous (Up, 'k')
KeyUp ==
    /\ cursor' = IF cursor = 0
                 THEN (IF Len(items) = 0 THEN 0 ELSE Len(items) - 1)
                 ELSE cursor - 1
    /\ UNCHANGED <<archVars, items, weissman_score, total_savings, session, is_scanning,
                   is_compressing, is_restoring, rx, queue, workers, history, faults,
                   job, posted, crawlVars>>

\* App::toggle_selection (' ')
KeySpace ==
    /\ items' = IF cursor < Len(items)
                THEN [items EXCEPT ![cursor + 1].selected = ~@]
                ELSE items
    /\ UNCHANGED <<archVars, cursor, weissman_score, total_savings, session, is_scanning,
                   is_compressing, is_restoring, rx, queue, workers, history, faults,
                   job, posted, crawlVars>>

\* App::start_scan ('s')
start_scan ==
    IF is_scanning \/ is_compressing THEN UNCHANGED vars
    ELSE /\ is_scanning' = TRUE
         /\ items' = <<>>
         /\ weissman_score' = <<0, 1>>
         /\ total_savings' = 0
         /\ rx' = TRUE
         /\ queue' = <<>>
         /\ workers' = Orphaned(workers)
                         \cup {[kind |-> "scan", live |-> TRUE, targets |-> {}]}
         /\ posted' = <<>>
         /\ UNCHANGED <<archVars, cursor, session, is_compressing, is_restoring,
                        history, faults, job, crawlVars>>

\* Mutant: every selected item is a target, whatever its status.
CompressionTargets_Selected ==
    {[idx |-> i, path |-> items[i].path] :
        i \in {j \in 1..Len(items) :
                 IF has_selection THEN items[j].selected ELSE items[j].status = "Found"}}

\* Mutant: every Found item is a target, selected or not.
CompressionTargets_AllFound ==
    {[idx |-> i, path |-> items[i].path] :
        i \in {j \in 1..Len(items) : items[j].status = "Found"}}

\* start_compression: the (index, path) pairs to compress.
CompressionTargets ==
    {[idx |-> i, path |-> items[i].path] :
        i \in {j \in 1..Len(items) :
                 /\ items[j].status = "Found"
                 /\ (~has_selection \/ items[j].selected)}}

\* Mutant: the targets are not marked before the thread is spawned.
start_compression_Unmarked ==
    IF is_scanning \/ is_compressing THEN UNCHANGED vars
    ELSE /\ is_compressing' = TRUE
         /\ session' = NoSession
         /\ rx' = TRUE
         /\ queue' = <<>>
         /\ items' = items
         /\ workers' = Orphaned(workers)
                         \cup {[kind |-> "compress", live |-> TRUE,
                                targets |-> CompressionTargets]}
         /\ job' = [active |-> TRUE, targets |-> {t.idx : t \in CompressionTargets},
                     items |-> items, total_savings |-> total_savings]
         /\ posted' = <<>>
         /\ UNCHANGED <<archVars, cursor, weissman_score, total_savings, is_scanning,
                        is_restoring, history, faults, crawlVars>>

\* App::start_compression ('c')
start_compression ==
    IF is_scanning \/ is_compressing THEN UNCHANGED vars
    ELSE /\ is_compressing' = TRUE
         /\ session' = NoSession
         /\ rx' = TRUE
         /\ queue' = <<>>
         /\ items' = [i \in 1..Len(items) |->
                        IF \E t \in CompressionTargets : t.idx = i
                        THEN [items[i] EXCEPT !.status = "Compressing"]
                        ELSE items[i]]
         /\ workers' = Orphaned(workers)
                         \cup {[kind |-> "compress", live |-> TRUE,
                                targets |-> CompressionTargets]}
         /\ job' = [active |-> TRUE, targets |-> {t.idx : t \in CompressionTargets},
                     items |-> items, total_savings |-> total_savings]
         /\ posted' = <<>>
         /\ UNCHANGED <<archVars, cursor, weissman_score, total_savings, is_scanning,
                        is_restoring, history, faults, crawlVars>>

\* Mutant: the cursor item is deleted together with the selected items.
DeleteIndices_CursorToo ==
    {i \in 1..Len(items) : items[i].selected} \cup {cursor + 1}

\* delete_item: the indices to delete.
DeleteIndices ==
    IF has_selection THEN {i \in 1..Len(items) : items[i].selected} ELSE {cursor + 1}

\* Mutant: a deleted item keeps its compressed size.
delete_item_KeepsSize ==
    IF is_compressing \/ is_restoring THEN UNCHANGED vars
    ELSE \E bad \in SUBSET DeleteIndices :
         LET hit == {i \in DeleteIndices : i <= Len(items) /\ Exists(fs, items[i].path)}
             its == [i \in 1..Len(items) |->
                       IF i \in hit \ bad
                       THEN [items[i] EXCEPT !.status = "Deleted"]
                       ELSE IF i \in hit THEN [items[i] EXCEPT !.status = "Error"]
                       ELSE items[i]]
         IN  /\ bad \subseteq hit
             /\ faults + Cardinality(bad) <= MaxFaults
             /\ faults' = faults + Cardinality(bad)
             /\ items' = its
             /\ total_savings' =
                    total_savings + SumSeq([i \in 1..Len(items) |->
                                              IF i \in hit \ bad
                                              THEN items[i].original_size ELSE 0])
             /\ fs' = [n \in (DOMAIN fs) \ {items[i].path : i \in hit \ bad} |-> fs[n]]
             /\ weissman_score' = calculate_score(its)
             /\ UNCHANGED <<call, prev, ncalls, cursor, session, is_scanning,
                            is_compressing, is_restoring, rx, queue, workers, history,
                            job, posted, crawlVars>>

\* Mutant: the items are deleted whether their paths exist or not.
delete_item_NoExistsCheck ==
    IF is_compressing \/ is_restoring THEN UNCHANGED vars
    ELSE \E bad \in SUBSET DeleteIndices :
         LET hit == {i \in DeleteIndices : i <= Len(items)}
             its == [i \in 1..Len(items) |->
                       IF i \in hit \ bad
                       THEN [items[i] EXCEPT !.status = "Deleted",
                                             !.compressed_size = Some(0)]
                       ELSE IF i \in hit THEN [items[i] EXCEPT !.status = "Error"]
                       ELSE items[i]]
         IN  /\ bad \subseteq hit
             /\ faults + Cardinality(bad) <= MaxFaults
             /\ faults' = faults + Cardinality(bad)
             /\ items' = its
             /\ total_savings' =
                    total_savings + SumSeq([i \in 1..Len(items) |->
                                              IF i \in hit \ bad
                                              THEN items[i].original_size ELSE 0])
             /\ fs' = [n \in (DOMAIN fs) \ {items[i].path : i \in hit \ bad} |-> fs[n]]
             /\ weissman_score' = calculate_score(its)
             /\ UNCHANGED <<call, prev, ncalls, cursor, session, is_scanning,
                            is_compressing, is_restoring, rx, queue, workers, history,
                            job, posted, crawlVars>>

\* App::delete_item behind its key guard ('d'); trash::delete fails on the items of
\* bad.
delete_item ==
    IF is_compressing \/ is_restoring THEN UNCHANGED vars
    ELSE \E bad \in SUBSET DeleteIndices :
         LET hit == {i \in DeleteIndices : i <= Len(items) /\ Exists(fs, items[i].path)}
             its == [i \in 1..Len(items) |->
                       IF i \in hit \ bad
                       THEN [items[i] EXCEPT !.status = "Deleted",
                                             !.compressed_size = Some(0)]
                       ELSE IF i \in hit THEN [items[i] EXCEPT !.status = "Error"]
                       ELSE items[i]]
         IN  /\ bad \subseteq hit
             /\ faults + Cardinality(bad) <= MaxFaults
             /\ faults' = faults + Cardinality(bad)
             /\ items' = its
             /\ total_savings' =
                    total_savings + SumSeq([i \in 1..Len(items) |->
                                              IF i \in hit \ bad
                                              THEN items[i].original_size ELSE 0])
             /\ fs' = [n \in (DOMAIN fs) \ {items[i].path : i \in hit \ bad} |-> fs[n]]
             /\ weissman_score' = calculate_score(its)
             /\ UNCHANGED <<call, prev, ncalls, cursor, session, is_scanning,
                            is_compressing, is_restoring, rx, queue, workers, history,
                            job, posted, crawlVars>>

\* Mutant: the restore command clears the compressed size at once.
restore_item_ClearsSize ==
    IF is_compressing \/ is_restoring \/ is_scanning THEN UNCHANGED vars
    ELSE IF cursor < Len(items) /\ items[cursor + 1].status = "Done"
    THEN /\ is_restoring' = TRUE
         /\ items' = [items EXCEPT ![cursor + 1].status = "Compressing",
                                  ![cursor + 1].compressed_size = None]
         /\ rx' = TRUE
         /\ queue' = <<>>
         /\ workers' = Orphaned(workers)
                         \cup {[kind |-> "restore", live |-> TRUE,
                                targets |-> {[idx |-> cursor + 1,
                                              path |-> items[cursor + 1].path]}]}
         /\ posted' = <<>>
         /\ UNCHANGED <<archVars, cursor, weissman_score, total_savings, session,
                        is_scanning, is_compressing, history, faults, job, crawlVars>>
    ELSE UNCHANGED vars

\* Mutant: the status of the cursor item is not looked at.
restore_item_AnyStatus ==
    IF is_compressing \/ is_restoring \/ is_scanning THEN UNCHANGED vars
    ELSE IF cursor < Len(items)
    THEN /\ is_restoring' = TRUE
         /\ items' = [items EXCEPT ![cursor + 1].status = "Compressing"]
         /\ rx' = TRUE
         /\ queue' = <<>>
         /\ workers' = Orphaned(workers)
                         \cup {[kind |-> "restore", live |-> TRUE,
                                targets |-> {[idx |-> cursor + 1,
                                              path |-> items[cursor + 1].path]}]}
         /\ posted' = <<>>
         /\ UNCHANGED <<archVars, cursor, weissman_score, total_savings, session,
                        is_scanning, is_compressing, history, faults, job, crawlVars>>
    ELSE UNCHANGED vars

\* App::restore_item behind its key guard ('e')
restore_item ==
    IF is_compressing \/ is_restoring \/ is_scanning THEN UNCHANGED vars
    ELSE IF cursor < Len(items) /\ items[cursor + 1].status = "Done"
    THEN /\ is_restoring' = TRUE
         /\ items' = [items EXCEPT ![cursor + 1].status = "Compressing"]
         /\ rx' = TRUE
         /\ queue' = <<>>
         /\ workers' = Orphaned(workers)
                         \cup {[kind |-> "restore", live |-> TRUE,
                                targets |-> {[idx |-> cursor + 1,
                                              path |-> items[cursor + 1].path]}]}
         /\ posted' = <<>>
         /\ UNCHANGED <<archVars, cursor, weissman_score, total_savings, session,
                        is_scanning, is_compressing, history, faults, job, crawlVars>>
    ELSE UNCHANGED vars

\* Mutant: every finished session is added to the history, with savings or not.
tick_AlwaysRecord ==
    IF is_scanning \/ is_compressing
    THEN \E a \in {ApplyMessages(AppState, IF rx THEN queue ELSE <<>>)} :
             /\ items' = a.items
             /\ cursor' = a.cursor
             /\ weissman_score' = a.score
             /\ total_savings' = a.total_savings
             /\ session' = a.session
             /\ is_scanning' = a.is_scanning
             /\ is_compressing' = a.is_compressing
             /\ is_restoring' = a.is_restoring
             /\ rx' = a.rx
             /\ queue' = <<>>
             /\ workers' = IF a.rx THEN workers ELSE Orphaned(workers)
             /\ history' = IF a.session_finished
                           THEN add_entry(history, a.session.original,
                                          a.session.compressed)
                           ELSE history
             /\ job' = IF a.is_compressing THEN job ELSE NoJob
             /\ posted' = IF a.rx THEN posted ELSE <<>>
             /\ UNCHANGED <<archVars, faults, crawlVars>>
    ELSE UNCHANGED vars

\* App::tick: while a scan or a compression is active, take every message queued on
\* App.rx and apply them in order; add the session to the history when it finished
\* with savings.
tick ==
    IF is_scanning \/ is_compressing
    THEN \E a \in {ApplyMessages(AppState, IF rx THEN queue ELSE <<>>)} :
             /\ items' = a.items
             /\ cursor' = a.cursor
             /\ weissman_score' = a.score
             /\ total_savings' = a.total_savings
             /\ session' = a.session
             /\ is_scanning' = a.is_scanning
             /\ is_compressing' = a.is_compressing
             /\ is_restoring' = a.is_restoring
             /\ rx' = a.rx
             /\ queue' = <<>>
             /\ workers' = IF a.rx THEN workers ELSE Orphaned(workers)
             /\ history' = IF a.session_finished /\ a.session.savings > 0
                           THEN add_entry(history, a.session.original,
                                          a.session.compressed)
                           ELSE history
             /\ job' = IF a.is_compressing THEN job ELSE NoJob
             /\ posted' = IF a.rx THEN posted ELSE <<>>
             /\ UNCHANGED <<archVars, faults, crawlVars>>
    ELSE UNCHANGED vars

\* tx.send(m) by the thread w
Send(w, m) ==
    /\ queue' = IF w.live THEN Append(queue, m) ELSE queue
    /\ posted' = IF w.live THEN Append(posted, m) ELSE posted

\* start_scan's thread: crawl, then post ScanComplete.
ScanWorker ==
    \E w \in workers :
        /\ w.kind = "scan"
        /\ \E q \in crawl(fs) :
              Send(w, ScanComplete([i \in 1..Len(q) |-> FileItem(q[i])]))
        /\ workers' = workers \ {w}
        /\ UNCHANGED <<archVars, items, cursor, weissman_score, total_savings, session,
                       is_scanning, is_compressing, is_restoring, rx, history, faults,
                       job, crawlVars>>

\* Mutant: a failed compress_file call ends the pool, the other targets are dropped.
CompressWorker_AbortOnError ==
    \E w \in workers :
        /\ w.kind = "compress"
        /\ \E t \in w.targets, flt \in FaultChoices :
              \E r \in {RunCall(fs, c) : c \in {NewCall(fs, "compress", t.path, flt)}} :
                  /\ fs' = r.fs
                  /\ Send(w, CompressionProgress(t.idx, r.call.res))
                  /\ faults' = faults + Injected(flt)
                  /\ workers' = (workers \ {w}) \cup {[w EXCEPT !.targets = IF r.call.res.ok THEN @ \ {t} ELSE {}]}
        /\ UNCHANGED <<call, prev, ncalls, items, cursor, weissman_score, total_savings,
                       session, is_scanning, is_compressing, is_restoring, rx, history,
                       job, crawlVars>>

\* start_compression's pool: compress_file on one target, then post its
\* CompressionProgress.
CompressWorker ==
    \E w \in workers :
        /\ w.kind = "compress"
        /\ \E t \in w.targets, flt \in FaultChoices :
              \E r \in {RunCall(fs, c) : c \in {NewCall(fs, "compress", t.path, flt)}} :
                  /\ fs' = r.fs
                  /\ Send(w, CompressionProgress(t.idx, r.call.res))
                  /\ faults' = faults + Injected(flt)
                  /\ workers' = (workers \ {w}) \cup {[w EXCEPT !.targets = @ \ {t}]}
        /\ UNCHANGED <<call, prev, ncalls, items, cursor, weissman_score, total_savings,
                       session, is_scanning, is_compressing, is_restoring, rx, history,
                       job, crawlVars>>

\* Mutant: CompressionDone is posted without waiting for the pool.
CompressFinish_Early ==
    \E w \in workers :
        /\ w.kind = "compress"
        /\ Send(w, CompressionDone)
        /\ workers' = workers \ {w}
        /\ UNCHANGED <<archVars, items, cursor, weissman_score, total_savings, session,
                       is_scanning, is_compressing, is_restoring, rx, history, faults,
                       job, crawlVars>>

\* start_compression's thread, after the pool has finished: post CompressionDone.
CompressFinish ==
    \E w \in workers :
        /\ w.kind = "compress"
        /\ w.targets = {}
        /\ Send(w, CompressionDone)
        /\ workers' = workers \ {w}
        /\ UNCHANGED <<archVars, items, cursor, weissman_score, total_savings, session,
                       is_scanning, is_compressing, is_restoring, rx, history, faults,
                       job, crawlVars>>

\* Mutant: the single-suffix path is used whatever exists.
RestoreArchivePath_SingleOnly(f, p) ==
    WithExtension(p, Extension(p) \o ZstSuffix)

\* restore_item's thread: the archive to decompress.
RestoreArchivePath(f, p) ==
    IF Exists(f, DirOutputPath(p)) THEN DirOutputPath(p)
    ELSE WithExtension(p, Extension(p) \o ZstSuffix)

\* restore_item's thread: decompress_file, then post RestorationDone.
RestoreWorker ==
    \E w \in workers :
        /\ w.kind = "restore"
        /\ \E t \in w.targets, flt \in FaultChoices :
              \E r \in {RunCall(fs, c) :
                           c \in {NewCall(fs, "decompress",
                                          RestoreArchivePath(fs, t.path), flt)}} :
                  /\ fs' = r.fs
                  /\ Send(w, RestorationDone(t.idx, r.call.res.ok))
                  /\ faults' = faults + Injected(flt)
        /\ workers' = workers \ {w}
        /\ UNCHANGED <<call, prev, ncalls, items, cursor, weissman_score, total_savings,
                       session, is_scanning, is_compressing, is_restoring, rx, history,
                       job, crawlVars>>

WorkerStep == ScanWorker \/ CompressWorker \/ CompressFinish \/ RestoreWorker

Next ==
    \/ KeyDown
    \/ KeyUp
    \/ KeySpace
    \/ start_scan
    \/ start_compression
    \/ delete_item
    \/ restore_item
    \/ tick
    \/ ScanWorker
    \/ CompressWorker
    \/ CompressFinish
    \/ RestoreWorker

Spec == Init /\ [][Next]_vars

\* main.rs run_app calls tick on every pass of its loop, and a spawned thread runs
\* to its end.
FairSpec == Spec /\ WF_vars(tick) /\ WF_vars(WorkerStep)


(***************************************************************************)
(* Claims about the Job Orchestrator, checked under Spec and FairSpec.     *)
(***************************************************************************)
JobActive == is_scanning \/ is_compressing \/ is_restoring

\* A compression worker has a compress_file call still to make or under way.
CompressInFlight == \E w \in workers : w.kind = "compress" /\ w.targets # {}
\* The restoration worker has its decompress_file call still to make or under way.
RestoreInFlight == \E w \in workers : w.kind = "restore"
\* The restoration worker for item i was spawned and has not posted its message.
RestoreDispatched(i) ==
    /\ is_restoring
    /\ \E w \in workers : w.kind = "restore" /\ \E t \in w.targets : t.idx = i

\* What a rejected command must leave alone: the item list, the job state, the
\* aggregate metrics, the channel listened to and the set of workers.
OrchestratorState ==
    <<items, is_scanning, is_compressing, is_restoring, weissman_score, total_savings,
      session, rx, queue, workers>>

\* C1: in every reachable state at most one of the scanning, compressing and
\* restoring flags is true.
C1_AtMostOneJob ==
    /\ ~(is_scanning /\ is_compressing)
    /\ ~(is_scanning /\ is_restoring)
    /\ ~(is_compressing /\ is_restoring)

\* C2: a scan, compress or restore command issued while any job is active changes
\* neither the item list, the job state, the metrics nor the channel, and spawns no
\* worker.
C2_CommandWhileActiveIsNoOp ==
    [][(JobActive /\ (start_scan \/ start_compression \/ restore_item))
          => UNCHANGED OrchestratorState]_vars

\* C3: whenever a job is active, the job state eventually returns to Idle (the
\* workers run to their end and the control loop keeps ticking).
C3_JobReturnsToIdle == JobActive ~> Idle

\* C4: after a restoration is dispatched on item i, the item eventually leaves the
\* busy marker: it becomes Restored with no compressed size, or Error.
C4_RestoreCompletes ==
    \A i \in 1..MaxItems :
        RestoreDispatched(i) ~>
            (/\ i <= Len(items)
             /\ \/ items[i].status = "Restored" /\ items[i].compressed_size = None
                \/ items[i].status = "Error")

\* C5: a compression worker and a restoration worker are never in flight together.
C5_NoCompressDuringRestore == ~(CompressInFlight /\ RestoreInFlight)


\* A compress command that is accepted.
AcceptedCompress == ~is_scanning /\ ~is_compressing /\ start_compression

\* The item indices handed to the compression thread that was spawned into ws.
SpawnedTargets(ws) ==
    UNION {{t.idx : t \in w.targets} : w \in {v \in ws : v.kind = "compress" /\ v.live}}

SelectedItems(its) == {i \in 1..Len(its) : its[i].selected}
FoundItems(its) == {i \in 1..Len(its) : its[i].status = "Found"}

\* C16 as stated: on an accepted compress command the targets are exactly the
\* selected items if any item is selected, and exactly the Found items otherwise.
C16_TargetsAreSelection ==
    [][AcceptedCompress =>
          SpawnedTargets(workers') =
              IF has_selection THEN SelectedItems(items) ELSE FoundItems(items)]_vars

\* C16, amended: on an accepted compress command the targets are exactly the
\* selected items with status Found if any item is selected, and exactly the Found
\* items otherwise.
C16_TargetsAreSelectedFound ==
    [][AcceptedCompress =>
          SpawnedTargets(workers') =
              IF has_selection THEN SelectedItems(items) \cap FoundItems(items)
              ELSE FoundItems(items)]_vars

\* A job was dispatched while a selected item was not Found and another was.
C16_Witness ==
    /\ job.active
    /\ SelectedItems(job.items) \ FoundItems(job.items) # {}
    /\ job.targets # {}
    /\ job.targets = SelectedItems(job.items) \cap FoundItems(job.items)

\* The compression job under way was dispatched with at least one item selected.
ScopedJob == job.active /\ SelectedItems(job.items) # {}
\* The unselected Found items of the list its.
Unselected(its) == FoundItems(its) \ SelectedItems(its)

\* C17: with at least one item selected, the compress command and every step of
\* the job that follows (its workers, the ticks that apply its messages) change
\* only items that were selected and Found at the command; when the job ends,
\* every item that was unselected and Found is still Found, has no compressed size
\* and has its path, size and reason unchanged.
C17_SelectionScoping ==
    [][/\ (AcceptedCompress /\ has_selection) =>
              /\ Len(items') = Len(items)
              /\ \A i \in 1..Len(items) :
                    i \notin SelectedItems(items) \cap FoundItems(items)
                        => items'[i] = items[i]
       /\ (ScopedJob /\ (tick \/ CompressWorker \/ CompressFinish)) =>
              /\ Len(items') = Len(job.items)
              /\ \A i \in 1..Len(items) :
                    i \notin SelectedItems(job.items) \cap FoundItems(job.items)
                        => items'[i] = items[i]
       /\ (ScopedJob /\ ~is_compressing') =>
              \A i \in Unselected(job.items) :
                  /\ items'[i].status = "Found"
                  /\ items'[i].compressed_size = None
                  /\ items'[i].path = job.items[i].path
                  /\ items'[i].original_size = job.items[i].original_size
                  /\ items'[i].reason = job.items[i].reason]_vars

\* A job over the selected first item has ended and the unselected second item is
\* still Found.
C17_Witness ==
    /\ Idle
    /\ Len(items) = 2
    /\ items[1].selected /\ items[1].status = "Done"
    /\ ~items[2].selected /\ items[2].status = "Found"
    /\ items[2].compressed_size = None

\* The positions of the progress messages in the sequence q.
ProgressOf(q) == {k \in 1..Len(q) : q[k].type = "CompressionProgress"}
\* The item indices the progress messages of q carry.
ProgressIndices(q) == {q[k].idx : k \in ProgressOf(q)}

\* C18: a compression job over N targets posts one progress message per target,
\* carrying that target's index and no index twice, then one CompressionDone, and
\* nothing else; CompressionDone is the message N + 1, so it is received after the
\* N progress messages; until it is posted the thread holds exactly the targets
\* that have no progress message yet.
C18_ProgressThenDone ==
    job.active =>
        /\ \A k \in 1..Len(posted) :
              posted[k].type \in {"CompressionProgress", "CompressionDone"}
        /\ ProgressIndices(posted) \subseteq job.targets
        /\ \A k, l \in ProgressOf(posted) : k # l => posted[k].idx # posted[l].idx
        /\ \A k \in 1..Len(posted) :
              posted[k].type = "CompressionDone"
                  => k = Len(posted) /\ k = Cardinality(job.targets) + 1
        /\ Len(queue) <= Len(posted)
        /\ queue = SubSeq(posted, Len(posted) - Len(queue) + 1, Len(posted))
        /\ \/ /\ Len(posted) = Cardinality(job.targets) + 1
              /\ posted[Len(posted)].type = "CompressionDone"
           \/ SpawnedTargets(workers) = job.targets \ ProgressIndices(posted)

\* Two targets: the progress message of the second arrived before that of the
\* first, and CompressionDone after both.
C18_Witness ==
    /\ job.active
    /\ job.targets = {1, 2}
    /\ Len(posted) = 3
    /\ posted[1].type = "CompressionProgress" /\ posted[1].idx = 2
    /\ posted[2].type = "CompressionProgress" /\ posted[2].idx = 1
    /\ posted[3].type = "CompressionDone"

\* The result the progress message for target i carries.
ResultOf(i) == posted[CHOOSE k \in ProgressOf(posted) : posted[k].idx = i].res
\* What the result for target i saves.
SavedBy(i) ==
    IF ResultOf(i).ok /\ ResultOf(i).osz > ResultOf(i).csz
    THEN ResultOf(i).osz - ResultOf(i).csz ELSE 0
\* Item i once the job's messages are applied, from the list at the command and the
\* set of results alone.
ExpectedItem(i) ==
    IF i \notin job.targets THEN job.items[i]
    ELSE IF ~ResultOf(i).ok THEN [job.items[i] EXCEPT !.status = "Error"]
    ELSE IF ResultOf(i).osz > ResultOf(i).csz
    THEN [job.items[i] EXCEPT !.status = "Done",
                              !.compressed_size = Some(ResultOf(i).csz)]
    ELSE [job.items[i] EXCEPT !.status = "Error",
                              !.compressed_size = Some(ResultOf(i).csz),
                              !.reason = "No savings or size increased"]

\* The sums of the original and of the effective sizes of the list its.
SumOriginal(its) == SumSeq([i \in 1..Len(its) |-> its[i].original_size])
SumEffective(its) ==
    SumSeq([i \in 1..Len(its) |->
              IF its[i].compressed_size = None THEN its[i].original_size
              ELSE its[i].compressed_size[1]])
\* The score sc, a fraction, is (sum of original / sum of effective) x 2.6 over its,
\* and 0 when the sum of the effective sizes is zero.
ScoreIsFormula(sc, its) ==
    IF SumEffective(its) = 0 THEN sc[1] = 0
    ELSE sc[1] * SumEffective(its) * 10 = SumOriginal(its) * 26 * sc[2]

\* C19: when the tick applies CompressionDone of a job over N targets, every item's
\* status, compressed size and other fields and the total savings are what the list
\* at the command and the set of the N results give, whatever the order of the
\* progress messages and the ticks they were applied in; the score is (sum of
\* original sizes / sum of effective sizes) x 2.6 wherever that quotient is defined.
C19_OrderIndependent ==
    [][(job.active /\ ~is_compressing') =>
          /\ Len(items') = Len(job.items)
          /\ \A i \in 1..Len(job.items) :
                [items'[i] EXCEPT !.selected = job.items[i].selected] = ExpectedItem(i)
          /\ total_savings' =
                job.total_savings
                  + SumSeq([i \in 1..Len(job.items) |->
                              IF i \in job.targets THEN SavedBy(i) ELSE 0])
          /\ SumEffective(items') > 0 => ScoreIsFormula(weissman_score', items')]_vars

\* A job over two targets has ended and its session is in the history: one target
\* saved space and the other did not.
C19_Witness ==
    /\ ~is_compressing
    /\ ~job.active
    /\ Len(items) = 2
    /\ items[1].status = "Done" /\ items[1].compressed_size # None
    /\ items[2].status = "Error" /\ items[2].compressed_size # None
    /\ total_savings > 0
    /\ Len(history) > 0

\* C20: in every state the stored score is (sum of original sizes / sum of
\* effective sizes) x 2.6 over the item list, and 0 when the sum of the effective
\* sizes is zero.
C20_ScoreIsFormula == ScoreIsFormula(weissman_score, items)


\* A tick that drains the channel of the compression job under way.
JobTick == job.active /\ rx /\ tick
\* What the progress message m adds to the total savings.
Credit(m) == IF m.res.ok /\ m.res.osz > m.res.csz THEN m.res.osz - m.res.csz ELSE 0

\* C21: a progress message whose result has a compressed size not below the
\* original size leaves its item Error, and a tick credits the savings of the
\* results that shrank and nothing else; every Done item has a compressed size that
\* is set and strictly below its original size.
C21_NoSavingsIsError ==
    /\ [](\A i \in 1..Len(items) :
             items[i].status = "Done" =>
                 /\ items[i].compressed_size # None
                 /\ items[i].compressed_size[1] < items[i].original_size)
    /\ [][JobTick =>
             /\ \A k \in ProgressOf(queue) :
                   (queue[k].res.ok /\ queue[k].res.csz >= queue[k].res.osz) =>
                       /\ items'[queue[k].idx].status = "Error"
                       /\ items'[queue[k].idx].compressed_size = Some(queue[k].res.csz)
             /\ total_savings' =
                   total_savings
                     + SumSeq([k \in 1..Len(queue) |->
                                 IF k \in ProgressOf(queue) THEN Credit(queue[k]) ELSE 0])]_vars

\* A result that saved nothing was applied: its item is Error with the compressed
\* size of the result, and nothing was credited.
C21_Witness ==
    /\ \E i \in 1..Len(items) :
          /\ items[i].status = "Error"
          /\ items[i].reason = "No savings or size increased"
          /\ items[i].compressed_size # None
          /\ items[i].compressed_size[1] >= items[i].original_size
    /\ total_savings = 0


\* A delete command that passes the key guard.
AcceptedDelete == ~is_compressing /\ ~is_restoring /\ delete_item
\* The targets of a delete command that are in the list.
DeleteTargets == {i \in DeleteIndices : i <= Len(items)}

\* C22: after a delete command every target that was Found or Done is Deleted with
\* compressed size 0, or is Error, and the savings grew by the original sizes of
\* the targets the command turned Deleted.
C22_DeleteTargets ==
    [][AcceptedDelete =>
          /\ \A i \in DeleteTargets :
                items[i].status \in {"Found", "Done"} =>
                    \/ items'[i].status = "Deleted" /\ items'[i].compressed_size = Some(0)
                    \/ items'[i].status = "Error"
          /\ total_savings' =
                total_savings
                  + SumSeq([i \in 1..Len(items) |->
                              IF i \in DeleteTargets /\ items[i].status # "Deleted"
                                 /\ items'[i].status = "Deleted"
                              THEN items[i].original_size ELSE 0])]_vars


\* The changes of status the state machine of an item allows.
StatusEdges ==
    {<<"Found", "Compressing">>, <<"Compressing", "Done">>, <<"Compressing", "Error">>,
     <<"Done", "Compressing">>, <<"Compressing", "Restored">>, <<"Found", "Deleted">>,
     <<"Done", "Deleted">>}

\* C23: while the list is not replaced by a scan, every change of an item's status
\* is one of the edges of StatusEdges; so Deleted is entered from Found or Done
\* only and never left.
C23_StatusEdges ==
    [][Len(items') = Len(items) =>
          \A i \in 1..Len(items) :
              items'[i].status # items[i].status
                  => <<items[i].status, items'[i].status>> \in StatusEdges]_vars


\* The step applies CompressionDone: the compression session ends.
SessionEnds == job.active /\ ~is_compressing'
\* The sums of the original and of the compressed sizes of the results posted in
\* the session that saved space.
SessionOriginal ==
    SumSeq([k \in 1..Len(posted) |->
              IF k \in ProgressOf(posted) /\ Credit(posted[k]) > 0
              THEN posted[k].res.osz ELSE 0])
SessionCompressed ==
    SumSeq([k \in 1..Len(posted) |->
              IF k \in ProgressOf(posted) /\ Credit(posted[k]) > 0
              THEN posted[k].res.csz ELSE 0])

\* C24 as stated: a step adds a record to the history exactly when it ends a
\* compression session, and then it adds exactly one.
C24_RecordPerSession ==
    [][/\ SessionEnds => Len(history') = Len(history) + 1
       /\ ~SessionEnds => history' = history]_vars

\* C24, amended: a step that ends a compression session in which at least one
\* item saved space adds exactly one record, the session's original and compressed
\* bytes, to the history; a step that ends a session without savings adds none; no
\* other step changes the history.
C24_RecordPerSavingSession ==
    [][/\ (SessionEnds /\ SessionOriginal > SessionCompressed) =>
              history' = Append(history,
                                [original_size |-> SessionOriginal,
                                 compressed_size |-> SessionCompressed,
                                 savings |-> SessionOriginal - SessionCompressed])
       /\ (SessionEnds /\ SessionOriginal <= SessionCompressed) => history' = history
       /\ ~SessionEnds => history' = history]_vars

\* A session has ended in which the only result saved nothing, and the history is
\* empty.
C24_Witness ==
    /\ ~is_compressing
    /\ ~job.active
    /\ history = <<>>
    /\ \E i \in 1..Len(items) :
          items[i].status = "Error" /\ items[i].reason = "No savings or size increased"
    /\ \A i \in 1..Len(items) : items[i].status # "Done"


\* C25: whatever job is active, a tick removes the messages queued on the job's
\* channel: in every state with a job active and a message queued, the tick can be
\* taken and leaves the queue empty.
C25_TickDrains == (JobActive /\ rx /\ queue # <<>>) => ENABLED (tick /\ queue' = <<>>)


\* Item i was marked Compressing by the compress command of the job under way.
CompressMarked(i) == items[i].status = "Compressing" /\ job.active /\ i \in job.targets
\* Item i was marked Compressing by a restore command.
RestoreMarked(i) == items[i].status = "Compressing" /\ ~(job.active /\ i \in job.targets)

\* C26 as stated: every Found, Compressing and Restored item has no compressed
\* size, every Done item has one and every Deleted item has 0.
C26_CompressedSizeByStatus ==
    \A i \in 1..Len(items) :
        /\ items[i].status \in {"Found", "Compressing", "Restored"}
              => items[i].compressed_size = None
        /\ items[i].status = "Done" => items[i].compressed_size # None
        /\ items[i].status = "Deleted" => items[i].compressed_size = Some(0)

\* C26, amended: every Found item, every item a compress command marked
\* Compressing and every Restored item has no compressed size; every Done item has
\* one, every Deleted item has 0, and an item a restore command marked Compressing
\* keeps the compressed size it had as Done.
C26_CompressedSizeByStatusAndJob ==
    \A i \in 1..Len(items) :
        /\ items[i].status \in {"Found", "Restored"} => items[i].compressed_size = None
        /\ CompressMarked(i) => items[i].compressed_size = None
        /\ RestoreMarked(i) =>
              /\ items[i].compressed_size # None
              /\ items[i].compressed_size[1] < items[i].original_size
        /\ items[i].status = "Done" => items[i].compressed_size # None
        /\ items[i].status = "Deleted" => items[i].compressed_size = Some(0)

\* A restoration is under way on an item that still has its compressed size, while
\* a compression job has marked another item that has none.
C26_Witness ==
    /\ is_restoring
    /\ \E i, j \in 1..Len(items) : RestoreMarked(i) /\ CompressMarked(j)


\* The item it after the CompressionProgress arm has applied the result r to it.
Outcome(it, r) ==
    IF ~r.ok THEN [it EXCEPT !.status = "Error"]
    ELSE IF r.osz > r.csz
    THEN [it EXCEPT !.status = "Done", !.compressed_size = Some(r.csz)]
    ELSE [it EXCEPT !.status = "Error", !.compressed_size = Some(r.csz),
                    !.reason = "No savings or size increased"]

\* C27: a failed compress call does not end the batch: until CompressionDone is
\* posted the pool holds exactly the targets without a progress message, failures
\* or not, and CompressionDone comes after a message for every target; a tick
\* gives each item with a queued progress message the outcome of its own result,
\* Error alone for a failure, and changes no other item.
C27_FailureStaysLocal ==
    /\ [](job.active =>
             /\ \/ SpawnedTargets(workers) = job.targets \ ProgressIndices(posted)
                \/ /\ posted # <<>>
                   /\ posted[Len(posted)].type = "CompressionDone"
             /\ (posted # <<>> /\ posted[Len(posted)].type = "CompressionDone")
                   => ProgressIndices(posted) = job.targets)
    /\ [][JobTick =>
             /\ Len(items') = Len(items)
             /\ \A k \in ProgressOf(queue) :
                   items'[queue[k].idx] = Outcome(items[queue[k].idx], queue[k].res)
             /\ \A i \in 1..Len(items) :
                   i \notin ProgressIndices(queue) => items'[i] = items[i]]_vars

\* The compress call of the first target failed and that of the second saved
\* space: both messages were applied, one item is Error and the other Done.
C27_Witness ==
    /\ job.active
    /\ job.targets = {1, 2}
    /\ Len(posted) = 2
    /\ queue = <<>>
    /\ \E k, l \in 1..2 :
          /\ ~posted[k].res.ok
          /\ items[posted[k].idx].status = "Error"
          /\ posted[l].res.ok
          /\ items[posted[l].idx].status = "Done"


\* A tick that applies the ScanComplete message of the scan under way.
ScanCompleteApplied == is_scanning /\ rx /\ queue # <<>> /\ tick
\* The list the queued ScanComplete message carries.
ScanList == queue[1].items

\* C28: when ScanComplete is applied the item list becomes the list the message
\* carries, which is sorted by size, largest first, with every item Found, without
\* compressed size and unselected, and the job state is Idle.
C28_ScanCompleteReplaces ==
    [][ScanCompleteApplied =>
          /\ queue[1].type = "ScanComplete"
          /\ items' = ScanList
          /\ \A i \in 1..Len(ScanList) :
                /\ ScanList[i].status = "Found"
                /\ ScanList[i].compressed_size = None
                /\ ~ScanList[i].selected
          /\ \A i, j \in 1..Len(ScanList) :
                i < j => ScanList[i].original_size >= ScanList[j].original_size
          /\ Idle']_vars


\* A scan command that is accepted.
AcceptedScan == ~is_scanning /\ ~is_compressing /\ start_scan
\* The job state is Scanning: of the three flags is_scanning alone is set.
Scanning == is_scanning /\ ~is_compressing /\ ~is_restoring

\* C29: an accepted scan command leaves the item list empty, the total savings and
\* the score 0, the job state Scanning and no message of the crawl on the channel;
\* while the scan is active the list stays empty.
C29_ScanDispatchResets ==
    /\ [](is_scanning => items = <<>>)
    /\ [][AcceptedScan =>
             /\ items' = <<>>
             /\ total_savings' = 0
             /\ weissman_score'[1] = 0
             /\ queue' = <<>>
             /\ Scanning']_vars


\* C30: an accepted compress command returns with every target Compressing, no
\* message posted and no file touched; and a target is Compressing, never Found,
\* as long as the pool still has its compress call to make or its progress
\* message is not applied.
C30_MarkedBeforeWorkers ==
    /\ [](job.active =>
             /\ \A i \in SpawnedTargets(workers) : items[i].status = "Compressing"
             /\ \A i \in job.targets : items[i].status # "Found")
    /\ [][AcceptedCompress =>
             /\ \A i \in SpawnedTargets(workers') : items'[i].status = "Compressing"
             /\ SpawnedTargets(workers') = FoundItems(items) \ FoundItems(items')
             /\ posted' = <<>>
             /\ queue' = <<>>
             /\ fs' = fs]_vars

\* The command has returned with two targets marked and no worker has run.
C30_Witness ==
    /\ job.active
    /\ job.targets = {1, 2}
    /\ SpawnedTargets(workers) = {1, 2}
    /\ posted = <<>>
    /\ items[1].status = "Compressing" /\ items[2].status = "Compressing"


\* The item indices handed to the restoration thread that was spawned into ws.
RestoreTargets(ws) ==
    UNION {{t.idx : t \in w.targets} : w \in {v \in ws : v.kind = "restore" /\ v.live}}
\* The cursor is on a Done item.
CursorOnDone == cursor < Len(items) /\ items[cursor + 1].status = "Done"

\* C31: a restore command that changes anything was given with the cursor on a
\* Done item; it spawns the restoration of that item alone and changes no other
\* item, whatever the selection flags are; with the cursor on an item of another
\* status, or on no item, the command changes nothing.
C31_RestoreCursorItemOnly ==
    /\ [](~CursorOnDone => ~ENABLED <<restore_item>>_vars)
    /\ [][restore_item =>
             /\ CursorOnDone
             /\ is_restoring'
             /\ RestoreTargets(workers') = {cursor + 1}
             /\ items' = [items EXCEPT ![cursor + 1].status = "Compressing"]]_vars

\* A restoration was dispatched on the unselected cursor item while the other item
\* is selected and Done as well.
C31_Witness ==
    /\ is_restoring
    /\ Len(items) = 2
    /\ RestoreTargets(workers) = {cursor + 1}
    /\ ~items[cursor + 1].selected
    /\ items[cursor + 1].status = "Compressing"
    /\ \E j \in 1..2 : j # cursor + 1 /\ items[j].selected /\ items[j].status = "Done"


\* The selected items if any item is selected, and the cursor item otherwise.
SelectionOrCursor ==
    IF SelectedItems(items) # {} THEN SelectedItems(items) ELSE {cursor + 1} \cap 1..Len(items)

\* C32: a delete command that changes anything was given while neither a
\* compression nor a restoration was active; it turns every item of the selection,
\* or the cursor item if nothing is selected, whose path exists Deleted or Error,
\* removes only paths of those items and changes no other item; while a compression
\* or a restoration is active the command changes nothing.
C32_DeleteSelectionOrCursor ==
    /\ []((is_compressing \/ is_restoring) => ~ENABLED <<delete_item>>_vars)
    /\ [][delete_item =>
             /\ ~is_compressing /\ ~is_restoring
             /\ Len(items') = Len(items)
             /\ \A i \in 1..Len(items) : i \notin SelectionOrCursor => items'[i] = items[i]
             /\ \A i \in SelectionOrCursor :
                   IF Exists(fs, items[i].path)
                   THEN items'[i].status \in {"Deleted", "Error"}
                   ELSE items'[i] = items[i]
             /\ (DOMAIN fs) \ (DOMAIN fs') \subseteq {items[i].path : i \in SelectionOrCursor}]_vars

\* A delete command took the selected item and left the unselected cursor item.
C32_Witness ==
    /\ Len(items) = 2
    /\ ~items[cursor + 1].selected
    /\ items[cursor + 1].status = "Found"
    /\ \E j \in 1..2 : items[j].selected /\ items[j].status = "Deleted"


\* The targets of the restoration threads that have not made their call yet.
PendingRestores == UNION {w.targets : w \in {v \in workers : v.kind = "restore"}}

\* C34: the archive a restoration thread is about to decompress is the item's path
\* plus ".tar.zst" if that exists and the output path of compress_single_file for
\* the item's path otherwise, and it is the archive compress_file produced for the
\* item: the packed directory of that name, or the zstd stream at the single
\* file's output path.
C34_RestoreFindsArchive ==
    \A t \in PendingRestores :
        \E a \in {RestoreArchivePath(fs, t.path)} :
            /\ a = IF Exists(fs, t.path \o TarZstSuffix) THEN t.path \o TarZstSuffix
                   ELSE SingleOutputPath(t.path)
            /\ Exists(fs, a)
            /\ \/ fs[a].enc = "tarzst" /\ fs[a].dname = t.path /\ a = DirOutputPath(t.path)
               \/ fs[a].enc = "zst" /\ a = SingleOutputPath(t.path)

\* A restoration is pending on a compressed directory, whose archive has the
\* double suffix.
C34_Witness ==
    \E t \in PendingRestores :
        /\ Exists(fs, t.path \o TarZstSuffix)
        /\ fs[RestoreArchivePath(fs, t.path)].enc = "tarzst"


\* C35 (SpecArch): whenever a compress call has returned, with savings, without
\* or with an error, the temporary file it created is not on the disk.
C35_NoTempAfterReturn ==
    (CompressReturned /\ call.tmp # <<>>) => ~Exists(fs, call.tmp)


\* C36 (SpecArch): when a decompress call returns an error because the decoding
\* or the unpacking failed, its restore target holds exactly what it held when the
\* call was entered: nothing new was created there, nothing truncated or replaced.
C36_FailedDecodeKeepsTarget ==
    (call.op = "decompress" /\ call.pc = "done" /\ ~call.res.ok /\ call.fault = "encode")
        => EntryAt(fs, RestoreTarget(fs, call.path)) = call.held


IndexJobLive == \E w \in workers : w.live /\ w.kind \in {"compress", "restore"}
\* The paths of the list its, in order.
PathsOf(its) == [i \in 1..Len(its) |-> its[i].path]
\* The message m on the channel listened to belongs to the item at its index: a
\* progress message to a target of the job under way whose path is the one the
\* job was started on and, with savings, the one the output was derived from; a
\* restoration message to the item marked for restoration.
OwnMessage(m) ==
    CASE m.type = "CompressionProgress" ->
           /\ job.active
           /\ m.idx \in job.targets
           /\ m.idx <= Len(items)
           /\ items[m.idx].path = job.items[m.idx].path
           /\ (m.res.ok /\ m.res.osz > m.res.csz) =>
                  m.res.out \in {SingleOutputPath(items[m.idx].path),
                                 DirOutputPath(items[m.idx].path)}
      [] m.type = "RestorationDone" ->
           /\ is_restoring
           /\ m.idx <= Len(items)
           /\ items[m.idx].status = "Compressing"
      [] OTHER -> TRUE

\* C38: every message that can be applied belongs to the item at the index it
\* carries, and while a compression or restoration thread is running on the channel
\* listened to, no step clears, replaces or reorders the item list.
C38_MessagesHitTheirItem ==
    /\ [](rx => \A k \in 1..Len(queue) : OwnMessage(queue[k]))
    /\ [][IndexJobLive => PathsOf(items') = PathsOf(items)]_vars


\* The targets of a delete command that are Deleted already.
DeletedTargets == {i \in DeleteTargets : items[i].status = "Deleted"}

\* C39: the path of a Deleted item does not exist; a delete command leaves every
\* target that is Deleted already as it is and credits nothing for it, and a
\* command all of whose targets are Deleted changes neither the list nor the
\* total savings.
C39_DeleteOnce ==
    /\ [](\A i \in 1..Len(items) :
             items[i].status = "Deleted" => ~Exists(fs, items[i].path))
    /\ [](DeletedTargets = DeleteTargets =>
             ~ENABLED (delete_item /\ <<items', total_savings'>> # <<items, total_savings>>))
    /\ [][AcceptedDelete =>
             /\ \A i \in DeletedTargets : items'[i] = items[i]
             /\ total_savings' =
                   total_savings
                     + SumSeq([i \in 1..Len(items) |->
                                 IF i \in DeleteTargets \ DeletedTargets
                                    /\ items'[i].status = "Deleted"
                                 THEN items[i].original_size ELSE 0])]_vars

\* The delete command is given again on the item it removed: the item under the
\* cursor is Deleted with compressed size 0, nothing is selected, no job is active
\* and the savings are the item's original size.
C39_Witness ==
    /\ ~is_compressing /\ ~is_restoring /\ ~is_scanning
    /\ SelectedItems(items) = {}
    /\ DeleteTargets = {cursor + 1}
    /\ DeletedTargets = DeleteTargets
    /\ items[cursor + 1].compressed_size = Some(0)
    /\ total_savings = items[cursor + 1].original_size


(***************************************************************************)
(* SpecPool: the pool of start_compression's thread on two targets.  The   *)
(* parallel for_each runs one compress_file call per target; call and prev *)
(* are the two calls, each taking one I/O step per transition, in any      *)
(* interleaving, on a disk that holds the two targets side by side.        *)
(***************************************************************************)
PoolFileNames == {<<"a", Dot, "log">>, <<"notes">>, <<"notes", Dot>>, <<"x", Dot, "tar">>}
PoolDirNames == {<<"x">>, <<"node_modules">>}

\* The entry of the pool's disks at the name n.
PoolEntry(n) == IF n \in PoolDirNames THEN DirEntry("D") ELSE RawFile("A")

PoolDisks ==
    {Disk2(d[1], PoolEntry(d[1]), d[2], PoolEntry(d[2])) :
        d \in {e \in (PoolFileNames \cup PoolDirNames) \X (PoolFileNames \cup PoolDirNames) :
                  e[1] # e[2]}}

InitPool ==
    /\ fs \in PoolDisks
    /\ call = IdleCall
    /\ prev = IdleCall
    /\ ncalls = 0
    /\ AppNew
    /\ NoCrawl

\* The pool hands each of the two targets to a worker; at most MaxFaults of the
\* calls meet a fault.
PoolStart ==
    /\ ncalls = 0
    /\ \E p1 \in DOMAIN fs, flt1, flt2 \in Faults :
          \E p2 \in (DOMAIN fs) \ {p1} :
              /\ Injected(flt1) + Injected(flt2) <= MaxFaults
              /\ call' = NewCall(fs, "compress", p1, flt1)
              /\ prev' = NewCall(fs, "compress", p2, flt2)
    /\ ncalls' = 2
    /\ UNCHANGED <<fs, appVars, crawlVars>>

\* The first worker's call takes its next I/O step.
PoolStepFirst ==
    /\ call.pc \notin {"idle", "done"}
    /\ \E n \in {ArchStep(fs, call)} : fs' = n.fs /\ call' = n.call
    /\ UNCHANGED <<prev, ncalls, appVars, crawlVars>>

\* The second worker's call takes its next I/O step.
PoolStepSecond ==
    /\ prev.pc \notin {"idle", "done"}
    /\ \E n \in {ArchStep(fs, prev)} : fs' = n.fs /\ prev' = n.call
    /\ UNCHANGED <<call, ncalls, appVars, crawlVars>>

NextPool == PoolStart \/ PoolStepFirst \/ PoolStepSecond

SpecPool == InitPool /\ [][NextPool]_vars

\* The compress call c has derived its temporary and its output path.
PathsDerived(c) == c.op = "compress" /\ c.tmp # <<>>

\* C33: two compress calls that run side by side on distinct paths write
\* temporary and output paths that are pairwise distinct.
C33_DistinctWrites ==
    (PathsDerived(call) /\ PathsDerived(prev) /\ call.path # prev.path)
        => {call.out, call.tmp} \cap {prev.out, prev.tmp} = {}


(***************************************************************************)
(* SpecCrawl: Spyder::crawl (src/src/spyder.rs) on a directory tree.       *)
(*                                                                         *)
(* A path is the sequence of the names from the scan root down to the      *)
(* entry.  The walker is built with hidden(false) and git_ignore(false)    *)
(* and no filter, so it yields every entry below the root; the trees hold  *)
(* no ignore files.  The root itself, which the walker also yields, has a  *)
(* name that is in none of the lists.  The analyses run in parallel: the   *)
(* entries are analysed, and their candidates pushed, in any order.        *)
(***************************************************************************)
\* Files of 1..MaxLen MiB.
MaxLen == 3
\* Last accesses from 29 to MaxAge days ago.
MaxAge == 31

Lens == 1..MaxLen
Ages == (StaleDays - 1)..MaxAge

DirNode == [kind |-> "dir", len |-> 0, age |-> 0]
FileNode(len, age) == [kind |-> "file", len |-> len, age |-> age]

\* Path::starts_with
IsPrefix(p, q) == Len(p) <= Len(q) /\ SubSeq(q, 1, Len(p)) = p

\* The sum of the lengths of the regular files among the entries S of the tree t.
RECURSIVE SumLen(_, _)
SumLen(t, S) ==
    IF S = {} THEN 0
    ELSE LET q == CHOOSE x \in S : TRUE
         IN  (IF t[q].kind = "file" THEN t[q].len ELSE 0) + SumLen(t, S \ {q})

\* Spyder::get_dir_size: WalkDir over the path, summing the regular files.
SpyderDirSize(t, p) == SumLen(t, {q \in DOMAIN t : IsPrefix(p, q)})

\* The ignore::DirEntry the walker yields for the path p of the tree t.
TreeEntry(t, p) ==
    [path |-> p, file_name |-> p[Len(p)], kind |-> t[p].kind, len |-> t[p].len,
     age |-> t[p].age, dir_size |-> SpyderDirSize(t, p)]

\* outer/lib/inner/gc.log: a directory two levels below another, with a log in it.
OuterNames == {<<"node_modules">>, <<Dot, "git">>, <<"src">>}
InnerNames == {<<"target">>, <<Dot, "git">>, <<"docs">>}
DeepTrees ==
    {(<<o>> :> DirNode) @@ (<<o, <<"lib">> >> :> DirNode)
       @@ (<<o, <<"lib">>, i>> :> DirNode)
       @@ (<<o, <<"lib">>, i, <<"gc", Dot, "log">> >> :> FileNode(l, a)) :
        o \in OuterNames, i \in InnerNames, l \in Lens, a \in Ages}

\* Three files in the root: one of any extension, size and age, two stale ones.
FileExtensions == {<<"log">>, <<"txt">>, <<"old">>, <<"dat">>, <<>>}
FlatTrees ==
    {(<< <<"a">> \o (IF x = <<>> THEN <<>> ELSE <<Dot>> \o x) >> :> FileNode(l, a))
       @@ (<< <<"b", Dot, "log">> >> :> FileNode(m, StaleDays + 1))
       @@ (<< <<"c", Dot, "txt">> >> :> FileNode(4, StaleDays + 1)) :
        x \in FileExtensions, l \in Lens, a \in Ages, m \in Lens}

CrawlTrees == DeepTrees \cup FlatTrees

InitCrawl ==
    /\ fs = <<>>
    /\ call = IdleCall
    /\ prev = IdleCall
    /\ ncalls = 0
    /\ AppNew
    /\ tree \in CrawlTrees
    /\ walk = DOMAIN tree
    /\ results = <<>>
    /\ final_results = None

\* crawl, the closure of for_each: analyse one entry and push its candidate.
AnalyzeEntry ==
    /\ final_results = None
    /\ \E p \in walk :
          /\ walk' = walk \ {p}
          /\ results' = results \o analyze_entry(TreeEntry(tree, p))
    /\ UNCHANGED <<archVars, appVars, tree, final_results>>

\* crawl, after the walk: clone the results, sort them and return them.
CrawlReturn ==
    /\ final_results = None
    /\ walk = {}
    /\ final_results' = Some(sort_by(results))
    /\ UNCHANGED <<archVars, appVars, tree, walk, results>>

NextCrawl == AnalyzeEntry \/ CrawlReturn

SpecCrawl == InitCrawl /\ [][NextCrawl]_vars


(***************************************************************************)
(* Claims about the Crawler, checked under SpecCrawl.                      *)
(***************************************************************************)
CrawlReturned == final_results # None
\* The sequence crawl returned.
Returned_items == IF CrawlReturned THEN final_results[1] ELSE <<>>

\* C12: no candidate crawl returns lies below another returned candidate that is a
\* heavy-dependency directory.
C12_PrunedSubtrees ==
    CrawlReturned =>
        \A i, j \in 1..Len(Returned_items) :
            (i # j /\ Returned_items[i].reason = "Heavy Dependency Folder")
                => ~IsPrefix(Returned_items[i].path, Returned_items[j].path)

\* C13: crawl returns neither a ".git" directory nor any entry below one.
C13_NoGitSubtree ==
    CrawlReturned =>
        \A i \in 1..Len(Returned_items) :
            \A k \in 1..Len(Returned_items[i].path) :
                Returned_items[i].path[k] # <<Dot, "git">>

\* C14: the sequence crawl returns is sorted by size, largest first, and holds each
\* entry that is a candidate exactly once (and no other entry), whatever the order
\* in which the analyses finished.
C14_SortedOnce ==
    CrawlReturned =>
        /\ \A i, j \in 1..Len(Returned_items) :
              i < j => Returned_items[i].size >= Returned_items[j].size
        /\ \A p \in DOMAIN tree :
              Cardinality({i \in 1..Len(Returned_items) : Returned_items[i].path = p})
                  = IF analyze_entry(TreeEntry(tree, p)) # <<>> THEN 1 ELSE 0
        /\ \A i \in 1..Len(Returned_items) : Returned_items[i].path \in DOMAIN tree

\* C14 witness: crawl returned three candidates that were pushed smallest first.
C14_Witness ==
    /\ CrawlReturned
    /\ Len(results) = 3
    /\ results[1].size < results[2].size
    /\ results[2].size < results[3].size
    /\ Returned_items[1] = results[3]

ScannedList == [i \in 1..Len(Returned_items) |-> FileItem(Returned_items[i])]
\* The target sets start_compression can form on the list its: all Found items
\* with nothing selected, the selected Found items otherwise.
JobTargetSets(its) == {FoundItems(its)} \cup (SUBSET FoundItems(its) \ {{}})

\* C40: in every compression job that can be started on the list of a scan, no
\* target's path lies inside the directory of another target, so no two workers of
\* the pool work on the same file.
C40_DisjointTargets ==
    CrawlReturned =>
        \A T \in JobTargetSets(ScannedList) :
            \A i, j \in T :
                i # j => ~IsPrefix(ScannedList[i].path, ScannedList[j].path)

====
